---- MODULE Spec2Model ----
(***************************************************************************)
(* SICDType (sarpy/io/complex/sicd_elements/SICD.py): the projection       *)
(* precondition gate can_project_coordinates, the cached COA projection    *)
(* context managed by define_coa_projection, derive(), and the validity    *)
(* checks behind _basic_validity_check (specifications Spec, CachedSpec    *)
(* and ValiditySpec), apply_reference_frequency (RefFreqSpec) and          *)
(* project_ground_to_image (GroundToImageSpec); and, of blocks.py, the     *)
(* polynomial classes Poly1DType, Poly2DType and XYZPolyType (PolySpec),   *)
(* their Coefs property (CoefsSpec) and the from_array class methods of    *)
(* the coordinate types (FromArraySpec).                                   *)
(*                                                                         *)
(* A SICDType is modelled by which of its (nested) attributes are          *)
(* populated.  A presence flag is TRUE when the attribute is not None; a   *)
(* child's flag is FALSE whenever its parent is None.  Grid.Type and       *)
(* ImageFormation.ImageFormAlgo carry their string value, NoneStr for None.*)
(***************************************************************************)
EXTENDS Integers, Sequences, FiniteSets, TLC

\* Bounds of the model.
MaxEdits == 1        \* attribute assignments made after construction
MaxContexts == 2     \* COAProjection objects constructed in one behaviour

NoneStr == "None"

\* Values of Grid.Type: the five SICD grid types and one value outside them
\* (the descriptor is not strict, so such a value can be stored).
PlaneTypes == {"XRGYCR", "XCTYAT", "PLANE"}
GridTypes == {"RGAZIM", "RGZERO"} \cup PlaneTypes
GridTypeValues == GridTypes \cup {"SLANT"}

\* Values of ImageFormation.ImageFormAlgo.
AlgoValues == {"PFA", "RGAZCOMP", "RMA", "OTHER"}

\* Presence-flag attributes, each with its parent (NoneStr for an attribute
\* of the SICDType itself).
Parent ==
  [ CollectionInfo |-> NoneStr, CollectionInfo_RadarMode |-> "CollectionInfo",
    CollectionInfo_RadarMode_ModeType |-> "CollectionInfo_RadarMode",
    RadarCollection |-> NoneStr, Radiometric |-> NoneStr,
    GeoData |-> NoneStr, GeoData_SCP |-> "GeoData", GeoData_SCP_ECF |-> "GeoData_SCP",
    GeoData_ImageCorners |-> "GeoData", GeoData_ValidData |-> "GeoData",
    ImageData |-> NoneStr, ImageData_FirstRow |-> "ImageData",
    ImageData_FirstCol |-> "ImageData", ImageData_SCPPixel |-> "ImageData",
    ImageData_SCPPixel_Row |-> "ImageData_SCPPixel",
    ImageData_SCPPixel_Col |-> "ImageData_SCPPixel",
    Position |-> NoneStr, Position_ARPPoly |-> "Position",
    Grid |-> NoneStr, Grid_TimeCOAPoly |-> "Grid",
    Grid_Row |-> "Grid", Grid_Row_SS |-> "Grid_Row", Grid_Row_UVectECF |-> "Grid_Row",
    Grid_Col |-> "Grid", Grid_Col_SS |-> "Grid_Col", Grid_Col_UVectECF |-> "Grid_Col",
    ImageFormation |-> NoneStr,
    SCPCOA |-> NoneStr, SCPCOA_SCPTime |-> "SCPCOA", SCPCOA_ARPPos |-> "SCPCOA",
    SCPCOA_ARPVel |-> "SCPCOA",
    RgAzComp |-> NoneStr, RgAzComp_AzSF |-> "RgAzComp",
    PFA |-> NoneStr, PFA_PolarAngPoly |-> "PFA", PFA_SpatialFreqSFPoly |-> "PFA",
    RMA |-> NoneStr, RMA_INCA |-> "RMA", RMA_INCA_R_CA_SCP |-> "RMA_INCA",
    RMA_INCA_TimeCAPoly |-> "RMA_INCA", RMA_INCA_DRateSFPoly |-> "RMA_INCA" ]

Flags == DOMAIN Parent

\* The string-valued attributes and their parents.
StrParent == [ Grid_Type |-> "Grid", ImageFormation_ImageFormAlgo |-> "ImageFormation" ]
StrFields == DOMAIN StrParent

AllParent == [f \in Flags \cup StrFields |->
                IF f \in Flags THEN Parent[f] ELSE StrParent[f]]

RECURSIVE Under(_, _)
\* f is g or lies below g in the attribute tree.
Under(f, g) ==
  IF f = g THEN TRUE
  ELSE IF AllParent[f] = NoneStr THEN FALSE
  ELSE Under(AllParent[f], g)

VARIABLES
  sicd,             \* the SICDType's attributes
  coa_projection,   \* _coa_projection: <<>> for None, <<object>> otherwise
  constructed,      \* number of COAProjection objects constructed so far
  edits,            \* number of attribute assignments made so far
  last,             \* the last operation, its arguments and its outcome
  poly              \* the blocks.py object at hand (a polynomial and its arrays,
                    \* the object from_array returned) or the iteration under way

sicdvars == <<sicd, coa_projection, constructed, edits, last>>

vars == <<sicd, coa_projection, constructed, edits, last, poly>>


(***************************************************************************)
(* Construction and attribute assignment                                   *)
(***************************************************************************)

\* SICDType(): every attribute None, _coa_projection None.
EmptySICD ==
  [f \in Flags \cup StrFields |-> IF f \in Flags THEN FALSE ELSE NoneStr]

\* SICDType(CollectionInfo=..., ..., RMA=...) given fully populated
\* sub-objects, with Grid.Type = t and ImageFormation.ImageFormAlgo = a.
FullSICD(t, a) ==
  [f \in Flags \cup StrFields |->
     IF f \in Flags THEN TRUE
     ELSE IF f = "Grid_Type" THEN t ELSE a]

\* The attributes at or below each attribute.
Below == [f \in Flags \cup StrFields |-> {g \in Flags \cup StrFields : Under(g, f)}]

\* Composite attributes (objects with attributes of their own).
Composite == {f \in Flags : Below[f] # {f}}

\* The value of attribute g after `f = None`, `f = <empty object>` (kind
\* "empty": an object all of whose attributes are None) or `f = <object>`
\* (kind "full": all attributes populated, with v the value of the string
\* attribute it carries, if any).
AssignedValue(s, f, g, kind, v) ==
  IF g \notin Below[f] THEN s[g]
  ELSE IF g \in StrFields
    THEN (IF kind = "full" THEN v ELSE NoneStr)
    ELSE IF f = g THEN kind # "None"
    ELSE kind = "full"

Assign(s, f, kind, v) ==
  [g \in Flags \cup StrFields |-> AssignedValue(s, f, g, kind, v)]

\* What can be assigned to attribute f: None, and for a composite an empty
\* or a populated object, for a leaf a value.
Kinds(f) == IF f \in Composite THEN {"None", "empty", "full"} ELSE {"None", "full"}

\* The string values an assigned object can carry.
StringChoices(f, kind) ==
  IF kind # "full" THEN {NoneStr}
  ELSE IF f \in {"Grid", "Grid_Type"} THEN GridTypeValues
  ELSE IF f \in {"ImageFormation", "ImageFormation_ImageFormAlgo"} THEN AlgoValues
  ELSE {NoneStr}

\* An attribute can be assigned when the object holding it exists.
Assignable(s, f) == IF AllParent[f] = NoneStr THEN TRUE ELSE s[AllParent[f]]

Outcome(op) ==
  [op |-> op, ret |-> FALSE, errors |-> <<>>, warnings |-> <<>>,
   overide |-> FALSE, steps |-> <<>>, raised |-> NoneStr, args |-> <<>>]

(***************************************************************************)
(* can_project_coordinates                                                 *)
(***************************************************************************)

Fail(field, warns) == [ret |-> FALSE, errors |-> <<field>>, warnings |-> warns]

Pass(warns) == [ret |-> TRUE, errors |-> <<>>, warnings |-> warns]

\* `self.Grid.Type == ['XRGYCR', 'XCTYAT', 'PLANE']`: a str compared with a
\* list; in Python the two are never equal.
StrEqualsList(str, list) == FALSE

\* PFASpecifics without its PFA.SpatialFreqSFPoly check.
PFASpecifics_SkipSpatialFreq(s, w) ==
  IF ~s.PFA THEN Fail("PFA", w)
  ELSE IF ~s.PFA_PolarAngPoly THEN Fail("PFA.PolarAngPoly", w)
  ELSE Pass(w)

\* Grid.Type = "RGAZIM" with ImageFormAlgo = "PFA".
PFASpecifics(s, w) ==
  IF ~s.PFA THEN Fail("PFA", w)
  ELSE IF ~s.PFA_PolarAngPoly THEN Fail("PFA.PolarAngPoly", w)
  ELSE IF ~s.PFA_SpatialFreqSFPoly THEN Fail("PFA.SpatialFreqSFPoly", w)
  ELSE Pass(w)

\* Grid.Type = "RGAZIM" with ImageFormAlgo = "RGAZCOMP".
RgAzCompSpecifics(s, w) ==
  IF ~s.RgAzComp THEN Fail("RgAzComp", w)
  ELSE IF ~s.RgAzComp_AzSF THEN Fail("RgAzComp.AzSF", w)
  ELSE Pass(w)

\* Grid.Type = "RGZERO".
RgZeroSpecifics(s, w) ==
  IF ~s.RMA \/ ~s.RMA_INCA THEN Fail("RMA.INCA", w)
  ELSE IF ~s.RMA_INCA_R_CA_SCP \/ ~s.RMA_INCA_TimeCAPoly \/ ~s.RMA_INCA_DRateSFPoly
    THEN Fail("RMA.INCA R_CA_SCP, TimeCAPoly, or DRateSFPoly", w)
  ELSE Pass(w)

\* RgAzimSpecifics accepting an ImageFormAlgo it does not handle.
RgAzimSpecifics_AnyAlgo(s, w) ==
  IF ~s.ImageFormation THEN Fail("ImageFormation", w)
  ELSE IF s.ImageFormation_ImageFormAlgo = NoneStr
    THEN Fail("ImageFormation.ImageFormAlgo", w)
  ELSE IF s.ImageFormation_ImageFormAlgo = "PFA" THEN PFASpecifics(s, w)
  ELSE IF s.ImageFormation_ImageFormAlgo = "RGAZCOMP" THEN RgAzCompSpecifics(s, w)
  ELSE Pass(w)

\* Grid.Type = "RGAZIM".
RgAzimSpecifics(s, w) ==
  IF ~s.ImageFormation THEN Fail("ImageFormation", w)
  ELSE IF s.ImageFormation_ImageFormAlgo = NoneStr
    THEN Fail("ImageFormation.ImageFormAlgo", w)
  ELSE IF s.ImageFormation_ImageFormAlgo = "PFA" THEN PFASpecifics(s, w)
  ELSE IF s.ImageFormation_ImageFormAlgo = "RGAZCOMP" THEN RgAzCompSpecifics(s, w)
  ELSE Fail("unhandled ImageFormation.ImageFormAlgo", w)

\* The plane-type branch.
PlaneSpecifics(s, w) ==
  IF ~s.Grid_Row_UVectECF \/ ~s.Grid_Col_UVectECF
    THEN Fail("Grid.Row or Grid.Col UVectECF", w)
  ELSE Pass(w)

\* GridTypeSpecifics accepting a Grid.Type it does not handle.
GridTypeSpecifics_Fallback(s, w) ==
  IF s.Grid_Type = "RGAZIM" THEN RgAzimSpecifics(s, w)
  ELSE IF s.Grid_Type = "RGZERO" THEN RgZeroSpecifics(s, w)
  ELSE IF StrEqualsList(s.Grid_Type, PlaneTypes) THEN PlaneSpecifics(s, w)
  ELSE Pass(w)

\* The `# specifics for Grid.Type value` part of can_project_coordinates.
GridTypeSpecifics(s, w) ==
  IF s.Grid_Type = "RGAZIM" THEN RgAzimSpecifics(s, w)
  ELSE IF s.Grid_Type = "RGZERO" THEN RgZeroSpecifics(s, w)
  ELSE IF StrEqualsList(s.Grid_Type, PlaneTypes) THEN PlaneSpecifics(s, w)
  ELSE Fail("Unhandled Grid.Type", w)

\* GridElements without its Grid.Col.SS check.
GridElements_SkipColSS(s) ==
  LET w == IF ~s.Grid_TimeCOAPoly THEN <<"Grid.TimeCOAPoly">> ELSE <<>> IN
  IF ~s.Grid_Row THEN Fail("Grid.Row", w)
  ELSE IF ~s.Grid_Row_SS THEN Fail("Grid.Row.SS", w)
  ELSE IF ~s.Grid_Col THEN Fail("Grid.Col", w)
  ELSE IF s.Grid_Type = NoneStr THEN Fail("Grid.Type", w)
  ELSE GridTypeSpecifics(s, w)

\* GridElements treating an unpopulated Grid.TimeCOAPoly as an error.
GridElements_TimeCOABlocks(s) ==
  IF ~s.Grid_TimeCOAPoly THEN Fail("Grid.TimeCOAPoly", <<>>)
  ELSE IF ~s.Grid_Row THEN Fail("Grid.Row", <<>>)
  ELSE IF ~s.Grid_Row_SS THEN Fail("Grid.Row.SS", <<>>)
  ELSE IF ~s.Grid_Col THEN Fail("Grid.Col", <<>>)
  ELSE IF ~s.Grid_Col_SS THEN Fail("Grid.Col.SS", <<>>)
  ELSE IF s.Grid_Type = NoneStr THEN Fail("Grid.Type", <<>>)
  ELSE GridTypeSpecifics(s, <<>>)

\* The `# Grid elements?` part, entered with Grid populated.
GridElements(s) ==
  LET w == IF ~s.Grid_TimeCOAPoly THEN <<"Grid.TimeCOAPoly">> ELSE <<>> IN
  IF ~s.Grid_Row THEN Fail("Grid.Row", w)
  ELSE IF ~s.Grid_Row_SS THEN Fail("Grid.Row.SS", w)
  ELSE IF ~s.Grid_Col THEN Fail("Grid.Col", w)
  ELSE IF ~s.Grid_Col_SS THEN Fail("Grid.Col.SS", w)
  ELSE IF s.Grid_Type = NoneStr THEN Fail("Grid.Type", w)
  ELSE GridTypeSpecifics(s, w)

\* can_project_coordinates without its GeoData.SCP check.
can_project_coordinates_SkipSCP(s, c) ==
  IF c # <<>> THEN Pass(<<>>)
  ELSE IF ~s.GeoData THEN Fail("GeoData", <<>>)
  ELSE IF ~s.GeoData_SCP_ECF THEN Fail("GeoData.SCP.ECF", <<>>)
  ELSE IF ~s.ImageData THEN Fail("ImageData", <<>>)
  ELSE IF ~s.ImageData_FirstRow THEN Fail("ImageData.FirstRow", <<>>)
  ELSE IF ~s.ImageData_FirstCol THEN Fail("ImageData.FirstCol", <<>>)
  ELSE IF ~s.ImageData_SCPPixel THEN Fail("ImageData.SCPPixel", <<>>)
  ELSE IF ~s.ImageData_SCPPixel_Row THEN Fail("ImageData.SCPPixel.Row", <<>>)
  ELSE IF ~s.ImageData_SCPPixel_Col THEN Fail("ImageData.SCPPixel.Col", <<>>)
  ELSE IF ~s.Position THEN Fail("Position", <<>>)
  ELSE IF ~s.Position_ARPPoly THEN Fail("Position.ARPPoly", <<>>)
  ELSE IF ~s.Grid THEN Fail("Grid", <<>>)
  ELSE GridElements(s)

\* can_project_coordinates examining the metadata whether or not a context
\* is cached.
can_project_coordinates_IgnoresCache(s, c) ==
  IF ~s.GeoData THEN Fail("GeoData", <<>>)
  ELSE IF ~s.GeoData_SCP THEN Fail("GeoData.SCP", <<>>)
  ELSE IF ~s.GeoData_SCP_ECF THEN Fail("GeoData.SCP.ECF", <<>>)
  ELSE IF ~s.ImageData THEN Fail("ImageData", <<>>)
  ELSE IF ~s.ImageData_FirstRow THEN Fail("ImageData.FirstRow", <<>>)
  ELSE IF ~s.ImageData_FirstCol THEN Fail("ImageData.FirstCol", <<>>)
  ELSE IF ~s.ImageData_SCPPixel THEN Fail("ImageData.SCPPixel", <<>>)
  ELSE IF ~s.ImageData_SCPPixel_Row THEN Fail("ImageData.SCPPixel.Row", <<>>)
  ELSE IF ~s.ImageData_SCPPixel_Col THEN Fail("ImageData.SCPPixel.Col", <<>>)
  ELSE IF ~s.Position THEN Fail("Position", <<>>)
  ELSE IF ~s.Position_ARPPoly THEN Fail("Position.ARPPoly", <<>>)
  ELSE IF ~s.Grid THEN Fail("Grid", <<>>)
  ELSE GridElements(s)

\* can_project_coordinates of a SICDType with attributes s and
\* _coa_projection c: the returned boolean, and the fields named by the
\* messages logged at error and at warning level, in order.
can_project_coordinates(s, c) ==
  IF c # <<>> THEN Pass(<<>>)
  ELSE IF ~s.GeoData THEN Fail("GeoData", <<>>)
  ELSE IF ~s.GeoData_SCP THEN Fail("GeoData.SCP", <<>>)
  ELSE IF ~s.GeoData_SCP_ECF THEN Fail("GeoData.SCP.ECF", <<>>)
  ELSE IF ~s.ImageData THEN Fail("ImageData", <<>>)
  ELSE IF ~s.ImageData_FirstRow THEN Fail("ImageData.FirstRow", <<>>)
  ELSE IF ~s.ImageData_FirstCol THEN Fail("ImageData.FirstCol", <<>>)
  ELSE IF ~s.ImageData_SCPPixel THEN Fail("ImageData.SCPPixel", <<>>)
  ELSE IF ~s.ImageData_SCPPixel_Row THEN Fail("ImageData.SCPPixel.Row", <<>>)
  ELSE IF ~s.ImageData_SCPPixel_Col THEN Fail("ImageData.SCPPixel.Col", <<>>)
  ELSE IF ~s.Position THEN Fail("Position", <<>>)
  ELSE IF ~s.Position_ARPPoly THEN Fail("Position.ARPPoly", <<>>)
  ELSE IF ~s.Grid THEN Fail("Grid", <<>>)
  ELSE GridElements(s)

(***************************************************************************)
(* define_coa_projection                                                   *)
(***************************************************************************)

\* Argument tuples of define_coa_projection (delta_arp, delta_varp,
\* range_bias, adj_params_frame): the defaults and one adjusted set.
CoaArgs ==
  { [delta_arp |-> "None", delta_varp |-> "None", range_bias |-> "None",
     adj_params_frame |-> "ECF"],
    [delta_arp |-> "d_arp", delta_varp |-> "d_varp", range_bias |-> "bias",
     adj_params_frame |-> "RIC_ECF"] }

\* point_projection.COAProjection(sicd, delta_arp=..., ...): a new object,
\* distinct from every earlier one, holding the adjustable parameters.
COAProjection(n, args) == [id |-> n, args |-> args]

\* define_coa_projection without the can_project_coordinates pre-check.
DefineCoaProjection_NoPrecheck(s, c, n, args, overide) ==
  IF c # <<>> /\ ~overide
    THEN [coa |-> c, built |-> FALSE, errors |-> <<>>, warnings |-> <<>>]
  ELSE [coa |-> <<COAProjection(n + 1, args)>>, built |-> TRUE,
        errors |-> <<>>, warnings |-> <<>>]

\* define_coa_projection ignoring its overide argument.
DefineCoaProjection_IgnoreOveride(s, c, n, args, overide) ==
  LET can == can_project_coordinates(s, c) IN
  IF ~can.ret
    THEN [coa |-> c, built |-> FALSE,
          errors |-> can.errors \o <<"COAProjection cannot be defined">>,
          warnings |-> can.warnings]
  ELSE [coa |-> <<COAProjection(n + 1, args)>>, built |-> TRUE,
        errors |-> <<>>, warnings |-> can.warnings]

\* define_coa_projection that never replaces a cached context.
DefineCoaProjection_KeepsCached(s, c, n, args, overide) ==
  LET can == can_project_coordinates(s, c) IN
  IF ~can.ret
    THEN [coa |-> c, built |-> FALSE,
          errors |-> can.errors \o <<"COAProjection cannot be defined">>,
          warnings |-> can.warnings]
  ELSE IF c # <<>>
    THEN [coa |-> c, built |-> FALSE, errors |-> <<>>, warnings |-> can.warnings]
  ELSE [coa |-> <<COAProjection(n + 1, args)>>, built |-> TRUE,
        errors |-> <<>>, warnings |-> can.warnings]

\* define_coa_projection(args, overide): the new _coa_projection, whether
\* a COAProjection was constructed, and the errors logged.
DefineCoaProjection(s, c, n, args, overide) ==
  LET can == can_project_coordinates(s, c) IN
  IF ~can.ret
    THEN [coa |-> c, built |-> FALSE,
          errors |-> can.errors \o <<"COAProjection cannot be defined">>,
          warnings |-> can.warnings]
  ELSE IF c # <<>> /\ ~overide
    THEN [coa |-> c, built |-> FALSE, errors |-> <<>>, warnings |-> can.warnings]
  ELSE [coa |-> <<COAProjection(n + 1, args)>>, built |-> TRUE,
        errors |-> <<>>, warnings |-> can.warnings]

(***************************************************************************)
(* project_* (delegating to sarpy.geometry.point_projection)               *)
(***************************************************************************)

\* project_ground_to_image and project_image_to_ground; their _geo variants
\* delegate the same way, with an ordering argument.
ProjectMethods == {"project_ground_to_image", "project_image_to_ground"}

\* The exceptions a projection that cannot be formulated fails with.
ProjectionErrors == {"ValueError", "AttributeError"}

\* A call threads the object's state: attributes s, _coa_projection coa,
\* the count n of contexts constructed, the sub-steps run so far and the
\* exception raised (NoneStr while none is).
CallState(s, c, n) == [s |-> s, coa |-> c, n |-> n, steps |-> <<>>, raised |-> NoneStr]

\* point_projection.<method>(..., sicd, use_sicd_coa=True, **coa_args): the
\* cached context is used when there is one; otherwise one is constructed
\* on this first request and cached on the sicd, and when that is not
\* feasible the projection fails with exc.
PointProjection(st, args, exc) ==
  IF st.coa # <<>> THEN st
  ELSE LET r == DefineCoaProjection(st.s, st.coa, st.n, args, TRUE) IN
    IF r.built THEN [st EXCEPT !.coa = r.coa, !.n = st.n + 1]
    ELSE [st EXCEPT !.raised = exc]

(***************************************************************************)
(* derive                                                                  *)
(***************************************************************************)

DefaultArgs ==
  [delta_arp |-> "None", delta_varp |-> "None", range_bias |-> "None",
   adj_params_frame |-> "ECF"]

\* The attributes the sub-objects' derivation methods can populate.
Derivable ==
  {"SCPCOA_SCPTime", "Grid_TimeCOAPoly", "SCPCOA_ARPPos", "SCPCOA_ARPVel",
   "Position_ARPPoly", "GeoData_SCP_ECF", "Grid_Row_UVectECF", "Grid_Col_UVectECF",
   "RgAzComp_AzSF", "PFA_PolarAngPoly", "PFA_SpatialFreqSFPoly"}

\* The derivation of attribute g: populated when its holder exists and
\* its derivation succeeds on this call (ok).
Populate(s, g, ok) ==
  IF g \in ok /\ Assignable(s, g) THEN [s EXCEPT ![g] = TRUE] ELSE s

RECURSIVE PopulateAll(_, _, _)
PopulateAll(s, targets, ok) ==
  IF targets = <<>> THEN s
  ELSE PopulateAll(Populate(s, Head(targets), ok), Tail(targets), ok)

\* A sub-object's derivation method `name` runs, with the attributes it
\* derives.
SubDerive(st, name, targets, ok) ==
  [st EXCEPT !.steps = Append(st.steps, name),
             !.s = PopulateAll(st.s, targets, ok)]

\* `if self.<f> is None: self.<f> = <f>Type()`: an object all of whose
\* attributes are None.
CreateIfNone(st, f) ==
  IF st.s[f] THEN st ELSE [st EXCEPT !.s = [st.s EXCEPT ![f] = TRUE]]

When(cond, st, then) == IF cond THEN then ELSE st

\* One statement of derive(), named by the call it makes, run on st.
Statement(stmt, st, ok) ==
  CASE stmt = "SCPCOA = SCPCOAType()" -> CreateIfNone(st, "SCPCOA")
    [] stmt = "SCPCOA._derive_scp_time" ->
         SubDerive(st, stmt, <<"SCPCOA_SCPTime">>, ok)
    [] stmt = "Grid._derive_time_coa_poly" ->
         When(st.s.Grid, st, SubDerive(st, stmt, <<"Grid_TimeCOAPoly">>, ok))
    [] stmt = "SCPCOA._derive_position" ->
         SubDerive(st, stmt, <<"SCPCOA_ARPPos", "SCPCOA_ARPVel">>, ok)
    [] stmt = "Position = PositionType()" ->
         When(~st.s.Position /\ st.s.SCPCOA_ARPPos /\ st.s.SCPCOA_ARPVel
                /\ st.s.SCPCOA_SCPTime, st, CreateIfNone(st, "Position"))
    [] stmt = "Position._derive_arp_poly" ->
         When(st.s.Position, st, SubDerive(st, stmt, <<"Position_ARPPoly">>, ok))
    [] stmt = "GeoData.derive" ->
         When(st.s.GeoData, st, SubDerive(st, stmt, <<"GeoData_SCP_ECF">>, ok))
    [] stmt = "Grid._derive_direction_params" ->
         When(st.s.Grid, st,
              SubDerive(st, stmt, <<"Grid_Row_UVectECF", "Grid_Col_UVectECF">>, ok))
    [] stmt = "RadarCollection.derive" ->
         When(st.s.RadarCollection, st, SubDerive(st, stmt, <<>>, ok))
    [] stmt = "ImageFormation._derive_tx_frequency_proc" ->
         When(st.s.ImageFormation, st, SubDerive(st, stmt, <<>>, ok))
    [] stmt = "SCPCOA._derive_geometry_parameters" -> SubDerive(st, stmt, <<>>, ok)
    [] stmt = "Grid = GridType()" -> CreateIfNone(st, "Grid")
    [] stmt = "Grid._derive_rg_az_comp" -> SubDerive(st, stmt, <<>>, ok)
    [] stmt = "RgAzComp = RgAzCompType()" -> CreateIfNone(st, "RgAzComp")
    [] stmt = "RgAzComp._derive_parameters" ->
         SubDerive(st, stmt, <<"RgAzComp_AzSF">>, ok)
    [] stmt = "PFA = PFAType()" -> CreateIfNone(st, "PFA")
    [] stmt = "PFA._derive_parameters" ->
         SubDerive(st, stmt, <<"PFA_PolarAngPoly", "PFA_SpatialFreqSFPoly">>, ok)
    [] stmt = "Grid._derive_pfa" ->
         When(st.s.Grid, st, SubDerive(st, stmt, <<>>, ok))
    [] stmt = "RMA._derive_parameters" ->
         When(st.s.RMA, st, SubDerive(st, stmt, <<>>, ok))
    [] stmt = "Grid._derive_rma" ->
         When(st.s.Grid, st, SubDerive(st, stmt, <<>>, ok))
    [] stmt = "Radiometric._derive_parameters" ->
         When(st.s.Radiometric, st, SubDerive(st, stmt, <<>>, ok))

RECURSIVE Run(_, _, _)
\* The statements stmts run in order, from each of the states S.
Run(stmts, S, ok) ==
  IF stmts = <<>> THEN S
  ELSE Run(Tail(stmts), {Statement(Head(stmts), st, ok) : st \in S}, ok)

\* derive(), from its start up to SCPCOA._derive_geometry_parameters.
DeriveCommon(S, ok) ==
  Run(<< "SCPCOA = SCPCOAType()",
         "SCPCOA._derive_scp_time",
         "Grid._derive_time_coa_poly",
         "SCPCOA._derive_position",
         "Position = PositionType()",
         "Position._derive_arp_poly",
         "GeoData.derive",
         "Grid._derive_direction_params",
         "RadarCollection.derive",
         "ImageFormation._derive_tx_frequency_proc",
         "SCPCOA._derive_geometry_parameters" >>, S, ok)

\* ImageFormAlgo.upper() for the values of the model (all upper case).
Upper(str) == str

\* derive(): the branch `# verify ImageFormation things make sense` takes.
AlgorithmBranch(st) ==
  LET im_form_algo ==
        IF st.s.ImageFormation /\ st.s.ImageFormation_ImageFormAlgo # NoneStr
          THEN Upper(st.s.ImageFormation_ImageFormAlgo) ELSE NoneStr
  IN
  IF im_form_algo = "RGAZCOMP" THEN
    << "Grid = GridType()", "Grid._derive_rg_az_comp",
       "RgAzComp = RgAzCompType()", "RgAzComp._derive_parameters" >>
  ELSE IF im_form_algo = "PFA" THEN
    << "PFA = PFAType()", "PFA._derive_parameters", "Grid._derive_pfa" >>
  ELSE IF im_form_algo = "RMA" THEN
    << "RMA._derive_parameters", "Grid._derive_rma" >>
  ELSE <<>>

\* derive(): the algorithm-specific derivation.
DeriveAlgorithm(S, ok) ==
  UNION {Run(AlgorithmBranch(st), {st}, ok) : st \in S}

\* The projected corners are stored in attribute f, unless the projection
\* raised one of the exceptions in `caught`, which ends the method quietly.
StoreCorners(pr, f, caught) ==
  IF pr.raised \in caught THEN [pr EXCEPT !.raised = NoneStr]
  ELSE IF pr.raised # NoneStr THEN pr
  ELSE [pr EXCEPT !.s = [pr.s EXCEPT ![f] = TRUE]]

\* define_geo_image_corners(override=False), past the creation of GeoData.
ImageCorners(st, exc) ==
  IF st.s.GeoData_ImageCorners THEN {st}
  ELSE IF ~st.s.ImageData THEN {st}      \* AttributeError on None, caught
  ELSE {StoreCorners(pr, "GeoData_ImageCorners", {"ValueError", "AttributeError"}) :
          pr \in {PointProjection(st, DefaultArgs, exc)}}

\* define_geo_image_corners(override=False), unless an exception propagates.
define_geo_image_corners(S, exc) ==
  UNION {IF st.raised # NoneStr THEN {st} ELSE ImageCorners(st, exc) :
           st \in {IF v.raised # NoneStr THEN v
                   ELSE [CreateIfNone(v, "GeoData") EXCEPT
                           !.steps = Append(v.steps, "define_geo_image_corners")] :
                   v \in S}}

\* define_geo_valid_data(), past its first test; valid is whether
\* ImageData.get_valid_vertex_data returns vertices.
ValidData(st, valid, exc) ==
  IF ~st.s.GeoData \/ st.s.GeoData_ValidData THEN {st}
  ELSE IF ~st.s.ImageData THEN {st}      \* AttributeError on None, caught
  ELSE IF ~valid THEN {st}
  ELSE {StoreCorners(pr, "GeoData_ValidData", {"AttributeError"}) :
          pr \in {PointProjection(st, DefaultArgs, exc)}}

\* define_geo_valid_data(), unless an exception propagates.
define_geo_valid_data(S, valid, exc) ==
  UNION {IF st.raised # NoneStr THEN {st} ELSE ValidData(st, valid, exc) :
           st \in {IF v.raised # NoneStr THEN v
                   ELSE [v EXCEPT !.steps = Append(v.steps, "define_geo_valid_data")] :
                   v \in S}}

\* derive(): the radiometric parameters, unless an exception propagates.
DeriveRadiometric(S, ok) ==
  UNION {IF st.raised # NoneStr THEN {st}
         ELSE Run(<<"Radiometric._derive_parameters">>, {st}, ok) : st \in S}

\* derive() with the geodetic corners defined before the algorithm-specific
\* derivation.
Derive_CornersFirst(st, ok, valid, exc) ==
  DeriveRadiometric(
    UNION {IF g.raised # NoneStr THEN {g} ELSE DeriveAlgorithm({g}, ok) :
             g \in define_geo_valid_data(
                     define_geo_image_corners(DeriveCommon({st}, ok), exc), valid, exc)},
    ok)

\* derive() as a whole: the states it can end in.
Derive(st, ok, valid, exc) ==
  DeriveRadiometric(
    define_geo_valid_data(
      define_geo_image_corners(
        DeriveAlgorithm(DeriveCommon({st}, ok), ok), exc), valid, exc), ok)

(***************************************************************************)
(* Validation: ImageFormType and _basic_validity_check                     *)
(***************************************************************************)

\* _choice[0]['collection'], in its order.
ChoiceCollection == <<"RgAzComp", "PFA", "RMA">>

\* The entries of seq, in order, that are populated in s.
Populated(s, seq) == SelectSeq(seq, LAMBDA a : s[a])

\* ImageFormType: the first populated attribute of the collection.
ImageFormType(s) ==
  IF Populated(s, ChoiceCollection) = <<>> THEN "OTHER"
  ELSE Head(Populated(s, ChoiceCollection))

\* The result of one validation method: its return value (when nothing is
\* raised), the exception raised if any, the diagnostics logged, and the
\* attributes after it.
Checked(s, ret, errors, warnings) ==
  [s |-> s, ret |-> ret, raised |-> NoneStr, errors |-> errors, warnings |-> warnings]

Raises(s, exc) ==
  [s |-> s, ret |-> FALSE, raised |-> exc, errors |-> <<>>, warnings |-> <<>>]

\* str.upper() of the three attribute names.
UpperName(alg) == IF alg = "RgAzComp" THEN "RGAZCOMP" ELSE alg

\* _validate_image_form that leaves a populated ImageFormAlgo as it is.
validate_image_form_KeepsTag(s) ==
  LET alg_types == Populated(s, <<"RgAzComp", "PFA", "RMA">>)
      algo == s.ImageFormation_ImageFormAlgo
  IN
  IF ~s.ImageFormation THEN Checked(s, FALSE, <<"ImageFormation">>, <<>>)
  ELSE IF Len(alg_types) > 1 THEN Checked(s, FALSE, <<"multiple">>, <<>>)
  ELSE IF algo = NoneStr
    THEN Checked([s EXCEPT !.ImageFormation_ImageFormAlgo =
                    IF Len(alg_types) = 0 THEN "OTHER" ELSE UpperName(alg_types[1])],
                 TRUE, <<>>, <<"ImageFormAlgo set">>)
  ELSE Checked(s, TRUE, <<>>, <<>>)

\* _validate_image_form.
validate_image_form(s) ==
  LET alg_types == Populated(s, <<"RgAzComp", "PFA", "RMA">>)
      algo == s.ImageFormation_ImageFormAlgo
  IN
  IF ~s.ImageFormation THEN Checked(s, FALSE, <<"ImageFormation">>, <<>>)
  ELSE IF Len(alg_types) > 1 THEN Checked(s, FALSE, <<"multiple">>, <<>>)
  ELSE IF Len(alg_types) = 0 THEN
    IF algo = NoneStr
      THEN Checked([s EXCEPT !.ImageFormation_ImageFormAlgo = "OTHER"], TRUE,
                   <<>>, <<"ImageFormAlgo set to OTHER">>)
    ELSE IF algo # "OTHER" THEN Checked(s, FALSE, <<"ImageFormAlgo">>, <<>>)
    ELSE Checked(s, TRUE, <<>>, <<>>)
  ELSE
    IF algo = UpperName(alg_types[1]) THEN Checked(s, TRUE, <<>>, <<>>)
    ELSE IF algo = NoneStr
      THEN Checked([s EXCEPT !.ImageFormation_ImageFormAlgo = UpperName(alg_types[1])],
                   TRUE, <<>>, <<"ImageFormAlgo set">>)
    ELSE Checked([s EXCEPT !.ImageFormation_ImageFormAlgo = UpperName(alg_types[1])],
                 TRUE, <<>>, <<"ImageFormAlgo changed">>)

\* Values of ImageFormation.SegmentIdentifier, and of
\* RadarCollection.Area.Plane.SegmentList: None (the list, or an object on
\* the way to it, is None) or the Identifier of each entry, in order.
SegmentIds == {NoneStr, "SEG1", "SEG2"}
NoSegmentList == [none |-> TRUE, ids |-> <<>>]
SegmentLists ==
  {NoSegmentList} \cup
  {[none |-> FALSE, ids |-> l] : l \in {<<>>, <<"SEG1">>, <<"SEG0", "SEG2">>}}

\* _validate_image_segment_id comparing with the first entry only.
validate_image_segment_id_FirstOnly(s, seg_id, seg_list) ==
  IF ~s.ImageFormation \/ ~s.RadarCollection THEN Checked(s, FALSE, <<>>, <<>>)
  ELSE IF seg_id = NoneStr THEN Checked(s, seg_list.none, <<>>, <<>>)
  ELSE Checked(s, ~seg_list.none /\ seg_list.ids # <<>>
                    /\ seg_id = Head(seg_list.ids), <<>>, <<>>)

\* _validate_image_segment_id, for the segment identifier and segment list
\* the product holds.
validate_image_segment_id(s, seg_id, seg_list) ==
  IF ~s.ImageFormation \/ ~s.RadarCollection THEN Checked(s, FALSE, <<>>, <<>>)
  ELSE IF seg_id = NoneStr THEN
    IF seg_list.none THEN Checked(s, TRUE, <<>>, <<>>)
    ELSE Checked(s, FALSE, <<"SegmentIdentifier not populated">>, <<>>)
  ELSE
    IF seg_list.none THEN Checked(s, FALSE, <<"SegmentList not populated">>, <<>>)
    ELSE IF \E i \in DOMAIN seg_list.ids : seg_id = seg_list.ids[i]
      THEN Checked(s, TRUE, <<>>, <<>>)
    ELSE Checked(s, FALSE, <<"SegmentIdentifier not in SegmentList">>, <<>>)

\* `a is not None or b is not None or c is not None` where b is an attribute
\* of a and c an attribute of b: the operands are evaluated left to right
\* until one is true, and reading an attribute of None raises.
\* Result: "True", "False" or the exception.
IsNotNoneOr(a, b, c) ==
  IF a THEN "True"
  ELSE \* self.CollectionInfo.RadarMode with self.CollectionInfo None
    "AttributeError"

\* _validate_spotlight_mode; spotlight is whether ModeType is 'SPOTLIGHT'
\* and scalar whether Grid.TimeCOAPoly.Coefs has shape (1, 1).
validate_spotlight_mode(s, spotlight, scalar) ==
  LET first == IsNotNoneOr(s.CollectionInfo, s.CollectionInfo_RadarMode,
                           s.CollectionInfo_RadarMode_ModeType)
  IN
  IF first = "AttributeError" THEN Raises(s, "AttributeError")
  ELSE IF first = "True" THEN Checked(s, TRUE, <<>>, <<>>)
  ELSE IF ~s.Grid \/ ~s.Grid_TimeCOAPoly THEN Checked(s, TRUE, <<>>, <<>>)
  ELSE IF spotlight /\ ~scalar THEN Checked(s, FALSE, <<"TimeCOAPoly not scalar">>, <<>>)
  ELSE IF scalar /\ ~spotlight THEN Checked(s, TRUE, <<>>, <<"ModeType not SPOTLIGHT">>)
  ELSE Checked(s, TRUE, <<>>, <<>>)

\* _basic_validity_check; base is the result of Serializable's check.  The
\* three methods run in order, each on the attributes the one before left.
basic_validity_check(s, base, seg_id, seg_list, spotlight, scalar) ==
  LET form == validate_image_form(s)
      seg == validate_image_segment_id(form.s, seg_id, seg_list)
      spot == validate_spotlight_mode(form.s, spotlight, scalar)
  IN
  [s |-> form.s,
   ret |-> IF spot.raised # NoneStr THEN FALSE
           ELSE base /\ form.ret /\ seg.ret /\ spot.ret,
   raised |-> spot.raised,
   errors |-> form.errors \o seg.errors \o spot.errors,
   warnings |-> form.warnings \o seg.warnings \o spot.warnings]

(***************************************************************************)
(* Polynomials (sarpy/io/complex/sicd_elements/blocks.py)                  *)
(*                                                                         *)
(* A coefficient array is a sequence (1D) or a sequence of rows (2D) of    *)
(* integers: index k of the model is index k-1 of the numpy array, and     *)
(* arithmetic is exact.  numpy arrays are objects: `heap` is the sequence  *)
(* of arrays allocated so far and an array is named by its index in it,    *)
(* so that an in-place update and an alias are visible.                    *)
(***************************************************************************)

\* Bounds of the polynomial model.
MaxLen == 3          \* coefficients of a Poly1DType
MaxShift == 1        \* t_0 is drawn from -MaxShift..MaxShift
MaxScale == 2        \* alpha is drawn from 0..MaxScale
MaxOrder == 3        \* der_order is drawn from -1..MaxOrder

Shifts == (0 - MaxShift)..MaxShift
Scales == 0..MaxScale
DerOrders == (0 - 1)..MaxOrder

\* The sequence f with its elements stored (the array numpy builds for the
\* value of an expression).
Array(f) == SubSeq(f, 1, Len(f))

RECURSIVE Power(_, _)
\* numpy.power(a, k) for an integer k >= 0.
Power(a, k) == IF k = 0 THEN 1 ELSE a * Power(a, k - 1)

\* numpy.copy(h[a]): a new array with the elements of array a.
NumpyCopy_Alias(h, a) == [heap |-> h, arr |-> a]

NumpyCopy(h, a) == [heap |-> Append(h, h[a]), arr |-> Len(h) + 1]

\* out[index:siz-1] -= t_0*out[index+1:siz] (index counted from 0): the
\* right-hand side is evaluated before any element is updated.
SliceSub_DropsFactor(out, index, t_0) ==
  Array([k \in 1..Len(out) |->
           IF index < k /\ k < Len(out) THEN out[k] - out[k + 1] ELSE out[k]])

RECURSIVE SequentialSub(_, _, _, _)
\* The slice update made one element at a time from the top down, each
\* element reading its neighbour after that neighbour's update.
SequentialSub(out, k, index, t_0) ==
  IF k <= index THEN out
  ELSE SequentialSub(Array([out EXCEPT ![k] = out[k] - t_0 * out[k + 1]]),
                     k - 1, index, t_0)

SliceSub_Sequential(out, index, t_0) == SequentialSub(out, Len(out) - 1, index, t_0)

SliceSub(out, index, t_0) ==
  Array([k \in 1..Len(out) |->
           IF index < k /\ k < Len(out) THEN out[k] - t_0 * out[k + 1] ELSE out[k]])

RECURSIVE HornerLoop(_, _, _)
\* `for i in range(siz): index = siz-i-1; if i > 0: <slice update>`, from
\* iteration i on.
HornerLoop(out, t_0, i) ==
  IF i >= Len(out) THEN out
  ELSE IF i = 0 THEN HornerLoop(out, t_0, 1)
  ELSE HornerLoop(SliceSub(out, Len(out) - i - 1, t_0), t_0, i + 1)

\* out *= numpy.power(alpha, numpy.arange(out.size))
ScalePowers(out, alpha) == Array([k \in 1..Len(out) |-> out[k] * Power(alpha, k - 1)])

\* Poly1DType.shift with the Horner loop run whatever t_0 is.
Poly1D_shift_NoShortCircuit(h, self, t_0, alpha) ==
  LET c == NumpyCopy(h, self)
      h1 == IF Len(h[self]) > 1
              THEN [c.heap EXCEPT ![c.arr] = SliceSub_DropsFactor(@, 0, t_0)]
              ELSE c.heap
  IN [heap |-> h1, ret |-> c.arr]

\* Poly1DType.shift(t_0, alpha) on the polynomial whose _coefs is array
\* `self` of heap h: the heap after the call and the array returned.
Poly1D_shift(h, self, t_0, alpha) ==
  LET c == NumpyCopy(h, self)
      h1 == IF t_0 # 0 /\ Len(h[self]) > 1
              THEN [c.heap EXCEPT ![c.arr] = HornerLoop(@, t_0, 0)]
              ELSE c.heap
      h2 == IF alpha # 1 /\ Len(h[self]) > 1
              THEN [h1 EXCEPT ![c.arr] = ScalePowers(@, alpha)]
              ELSE h1
  IN [heap |-> h2, ret |-> c.arr]

\* The coefficients Poly1DType(Coefs=coefs).shift(t_0, alpha) returns.
Shift1D(coefs, t_0, alpha) ==
  LET r == Poly1D_shift(<<coefs>>, 1, t_0, alpha) IN r.heap[r.ret]

RECURSIVE PolyVal(_, _)
\* numpy.polynomial.polynomial.polyval(x, c).
PolyVal(x, c) == IF Len(c) = 0 THEN 0 ELSE Head(c) + x * PolyVal(x, Tail(c))

\* One pass of polyder: der[j-1] = j*c[j] for j = n, ..., 1 with n = len(c)-1.
DerStep_NoFactor(c) == Array([j \in 1..(Len(c) - 1) |-> c[j + 1]])

DerStep(c) == Array([j \in 1..(Len(c) - 1) |-> j * c[j + 1]])

RECURSIVE DerLoop(_, _)
DerLoop(c, cnt) == IF cnt = 0 THEN c ELSE DerLoop(DerStep(c), cnt - 1)

\* numpy.polynomial.polynomial.polyder(c, m): the coefficients of a new
\* array, or the exception raised.
PolyDer(c, m) ==
  IF m < 0 THEN [raised |-> "ValueError", coefs |-> <<>>]
  ELSE IF m = 0 THEN [raised |-> NoneStr, coefs |-> c]
  ELSE IF m >= Len(c) THEN [raised |-> NoneStr, coefs |-> <<0>>]
  ELSE [raised |-> NoneStr, coefs |-> DerLoop(c, m)]

\* Poly1DType.derivative(der_order): the heap after the call, the array
\* returned (0 when the call raises) and the exception raised.
Poly1D_derivative(h, self, der_order) ==
  LET d == PolyDer(h[self], der_order) IN
  IF d.raised # NoneStr THEN [heap |-> h, ret |-> 0, raised |-> d.raised]
  ELSE [heap |-> Append(h, d.coefs), ret |-> Len(h) + 1, raised |-> NoneStr]

\* The only element of a one-element set.
TheOne(S) == CHOOSE r \in S : TRUE

\* out[index:siz-1, :] -= t*out[index+1:siz, :] (index counted from 0).
RowSliceSub(out, index, t) ==
  Array([k \in 1..Len(out) |->
           IF index < k /\ k < Len(out)
             THEN Array([j \in 1..Len(out[k]) |-> out[k][j] - t * out[k + 1][j]])
             ELSE out[k]])

RECURSIVE RowHornerLoop(_, _, _)
\* The Horner loop over the first axis, from iteration i on.
RowHornerLoop(out, t, i) ==
  IF i >= Len(out) THEN out
  ELSE IF i = 0 THEN RowHornerLoop(out, t, 1)
  ELSE RowHornerLoop(RowSliceSub(out, Len(out) - i - 1, t), t, i + 1)

\* out[:, index:siz-1] -= t (the array factor of the update left out).
ColSliceSub_DropsArray(out, index, t) ==
  Array([k \in 1..Len(out) |->
           Array([j \in 1..Len(out[k]) |->
                    IF index < j /\ j < Len(out[k]) THEN out[k][j] - t
                    ELSE out[k][j]])])

\* out[:, index:siz-1] -= t*out[:, index+1:siz] (index counted from 0).
ColSliceSub(out, index, t) ==
  Array([k \in 1..Len(out) |-> SliceSub(out[k], index, t)])

RECURSIVE ColHornerLoop_DropsArray(_, _, _)
ColHornerLoop_DropsArray(out, t, i) ==
  IF i >= Len(out[1]) THEN out
  ELSE IF i = 0 THEN ColHornerLoop_DropsArray(out, t, 1)
  ELSE ColHornerLoop_DropsArray(ColSliceSub_DropsArray(out, Len(out[1]) - i - 1, t),
                                t, i + 1)

RECURSIVE ColHornerLoop(_, _, _)
\* The Horner loop over the second axis, from iteration i on.
ColHornerLoop(out, t, i) ==
  IF i >= Len(out[1]) THEN out
  ELSE IF i = 0 THEN ColHornerLoop(out, t, 1)
  ELSE ColHornerLoop(ColSliceSub(out, Len(out[1]) - i - 1, t), t, i + 1)

\* The statements of Poly2DType.shift, each run from each state of S: a
\* state is the heap and the array `out` names.

\* `if t1_shift != 0 and self._coefs.shape[0] > 1:` and its loop.
Axis1Shift(S, t1_shift) ==
  {IF t1_shift # 0 /\ Len(st.heap[st.out]) > 1
     THEN [st EXCEPT !.heap[st.out] = RowHornerLoop(@, t1_shift, 0)]
     ELSE st : st \in S}

\* `out = numpy.power(t1_scale, numpy.arange(out.shape[0]))[:, numpy.newaxis]*out`:
\* the product is a new array.
Axis1Scale(S, t1_scale) ==
  {IF t1_scale # 1 /\ Len(st.heap[st.out]) > 1
     THEN [heap |-> Append(st.heap,
                      Array([k \in 1..Len(st.heap[st.out]) |->
                               Array([j \in 1..Len(st.heap[st.out][k]) |->
                                        Power(t1_scale, k - 1) * st.heap[st.out][k][j]])])),
           out |-> Len(st.heap) + 1]
     ELSE st : st \in S}

\* The second-axis loop with the update's array factor left out.
Axis2Shift_DropsArray(S, t1_shift, t2_shift) ==
  {IF t2_shift # 0 /\ Len(st.heap[st.out][1]) > 1
     THEN [st EXCEPT !.heap[st.out] = ColHornerLoop_DropsArray(@, t2_shift, 0)]
     ELSE st : st \in S}

\* `if t2_shift != 0 and out.shape[1] > 1:` and its loop, whose update is
\* `out[:, index:siz-1] -= t1_shift*out[:, index+1:siz]`.
Axis2Shift(S, t1_shift, t2_shift) ==
  {IF t2_shift # 0 /\ Len(st.heap[st.out][1]) > 1
     THEN [st EXCEPT !.heap[st.out] = ColHornerLoop(@, t1_shift, 0)]
     ELSE st : st \in S}

\* `out *= numpy.power(t2_scale, numpy.arange(out.shape[1]))`
Axis2Scale(S, t2_scale) ==
  {IF t2_scale # 1 /\ Len(st.heap[st.out][1]) > 1
     THEN [st EXCEPT !.heap[st.out] =
             Array([k \in 1..Len(@) |-> ScalePowers(@[k], t2_scale)])]
     ELSE st : st \in S}

\* Poly2DType.shift(t1_shift, t1_scale, t2_shift, t2_scale) on the
\* polynomial whose _coefs is array `self` of heap h.
Poly2D_shift(h, self, t1_shift, t1_scale, t2_shift, t2_scale) ==
  TheOne({[heap |-> st.heap, ret |-> st.out] :
            st \in Axis2Scale(
                     Axis2Shift(
                       Axis1Scale(
                         Axis1Shift({[heap |-> NumpyCopy(h, self).heap,
                                      out |-> NumpyCopy(h, self).arr]}, t1_shift),
                         t1_scale),
                       t1_shift, t2_shift),
                     t2_scale)})

\* The coefficients Poly2DType(Coefs=coefs).shift(...) returns.
Shift2D(coefs, t1_shift, t1_scale, t2_shift, t2_scale) ==
  TheOne({r.heap[r.ret] :
            r \in {Poly2D_shift(<<coefs>>, 1, t1_shift, t1_scale, t2_shift, t2_scale)}})

\* numpy.polynomial.polynomial.polyval2d(x, y, c).
PolyVal2D(x, y, c) == PolyVal(x, Array([k \in 1..Len(c) |-> PolyVal(y, c[k])]))

RECURSIVE EachShift(_, _, _, _, _)
\* [getattr(self, attrib).shift(t_0, alpha=alpha) for attrib in ['X', 'Y', 'Z']],
\* from component i on: the heap after the calls and the arrays returned.
EachShift(h, selfs, t_0, alpha, i) ==
  IF i > Len(selfs) THEN {[heap |-> h, ret |-> <<>>]}
  ELSE UNION {{[rest EXCEPT !.ret = <<r.ret>> \o rest.ret] :
                 rest \in EachShift(r.heap, selfs, t_0, alpha, i + 1)} :
                r \in {Poly1D_shift(h, selfs[i], t_0, alpha)}}

\* XYZPolyType.shift(t_0, alpha).
XYZPoly_shift(h, selfs, t_0, alpha) == TheOne(EachShift(h, selfs, t_0, alpha, 1))

RECURSIVE EachDerivative(_, _, _, _)
\* [getattr(self, attrib).derivative(der_order=der_order) for attrib in
\* ['X', 'Y', 'Z']], from component i on; the first exception ends it.
EachDerivative(h, selfs, der_order, i) ==
  IF i > Len(selfs) THEN {[heap |-> h, ret |-> <<>>, raised |-> NoneStr]}
  ELSE UNION {IF r.raised # NoneStr THEN {[heap |-> h, ret |-> <<>>, raised |-> r.raised]}
              ELSE {[rest EXCEPT !.ret = IF rest.raised = NoneStr
                                           THEN <<r.ret>> \o rest.ret ELSE <<>>] :
                      rest \in EachDerivative(r.heap, selfs, der_order, i + 1)} :
                r \in {Poly1D_derivative(h, selfs[i], der_order)}}

\* XYZPolyType.derivative(der_order).
XYZPoly_derivative(h, selfs, der_order) == TheOne(EachDerivative(h, selfs, der_order, 1))

\* The record of a call on the polynomial: the method, its arguments,
\* the arrays of the returned coefficients (or of the returned polynomial,
\* with return_poly), the value returned by an evaluation, and the
\* exception raised.
Call(op, args, return_poly, ret, value, raised) ==
  [op |-> op, args |-> args, return_poly |-> return_poly, ret |-> ret,
   value |-> value, raised |-> raised]

NoCall == Call("__init__", <<>>, FALSE, <<>>, <<>>, NoneStr)

\* No polynomial object.
NoPoly ==
  [kind |-> NoneStr, heap |-> <<>>, self |-> <<>>, orig |-> <<>>, from |-> <<>>,
   call |-> NoCall]

\* A polynomial of class kind constructed from the coefficient arrays
\* coefs (one array, or three for an XYZPolyType): the arrays are the first
\* of the heap, `orig` keeps their values at construction, and `from` says
\* which shift call returned them, if one did.
NewPoly(kind, coefs, from) ==
  [kind |-> kind, heap |-> coefs, self |-> Array([i \in 1..Len(coefs) |-> i]),
   orig |-> coefs, from |-> from, call |-> NoCall]

\* Coefficient arrays of the model.
CoefValues == {0, 1}

Coefs1D == UNION {{Array(f) : f \in [1..n -> CoefValues]} : n \in 1..MaxLen}

Shape2D == {1, 2}

Coefs2D ==
  UNION {{Array([k \in 1..r |-> Array(g[k])]) : g \in [1..r -> [1..c -> CoefValues]]} :
           r \in Shape2D, c \in Shape2D}

CoefsXYZ == {<<1>>, <<0, 1>>, <<1, 0, 1>>}

\* Arguments of Poly2DType.shift.
Shifts2D == {0 - 1, 0, 1}
Scales2D == {1, 2}

\* Points at which a derivative is evaluated.
EvalArgs == {0 - 1, 2}

\* The receiver's arrays: arrays returned by earlier calls are dropped.
Receiver(p) == SubSeq(p.heap, 1, Len(p.self))

(***************************************************************************)
(* Actions                                                                 *)
(***************************************************************************)

Init ==
  /\ sicd \in {EmptySICD} \cup
              {FullSICD(t, a) : t \in GridTypeValues, a \in AlgoValues}
  /\ coa_projection = <<>>
  /\ constructed = 0
  /\ edits = 0
  /\ last = Outcome("__init__")
  /\ poly = NoPoly

\* sicd.<f> = None / an empty object / a populated object or value, for
\* any attribute path f (Grid.Type and ImageFormation.ImageFormAlgo take
\* their string values).
SetAttribute ==
  \E f \in Flags \cup StrFields :
    \E kind \in Kinds(f) :
      \E v \in StringChoices(f, kind) :
        /\ edits < MaxEdits
        /\ Assignable(sicd, f)
        /\ sicd' = Assign(sicd, f, kind, v)
        /\ sicd' # sicd
        /\ edits' = edits + 1
        /\ last' = Outcome("setattr")
        /\ UNCHANGED <<poly, coa_projection, constructed>>

CanProjectCoordinates ==
  \E r \in {can_project_coordinates(sicd, coa_projection)} :
    /\ last' = [Outcome("can_project_coordinates") EXCEPT
                  !.ret = r.ret, !.errors = r.errors, !.warnings = r.warnings]
    /\ UNCHANGED <<poly, sicd, coa_projection, constructed, edits>>

DefineCoa ==
  \E args \in CoaArgs, overide \in BOOLEAN :
    \E r \in {DefineCoaProjection(sicd, coa_projection, constructed, args, overide)} :
      /\ r.built => constructed < MaxContexts
      /\ coa_projection' = r.coa
      /\ constructed' = IF r.built THEN constructed + 1 ELSE constructed
      /\ last' = [Outcome("define_coa_projection") EXCEPT
                    !.errors = r.errors, !.warnings = r.warnings,
                    !.overide = overide, !.ret = r.built, !.args = args]
      /\ UNCHANGED <<poly, sicd, edits>>

\* The keyword arguments and the failure that matter to a projection call:
\* none when a context is cached already.
ProjectInputs(c) ==
  IF c # <<>> THEN {[args |-> DefaultArgs, exc |-> "ValueError"]}
  ELSE [args : CoaArgs, exc : ProjectionErrors]

ProjectCoordinates ==
  \E m \in ProjectMethods, inp \in ProjectInputs(coa_projection) :
    \E r \in {PointProjection(CallState(sicd, coa_projection, constructed),
                              inp.args, inp.exc)} :
      /\ r.n <= MaxContexts
      /\ coa_projection' = r.coa
      /\ constructed' = r.n
      /\ last' = [Outcome(m) EXCEPT !.raised = r.raised, !.ret = r.raised = NoneStr]
      /\ UNCHANGED <<poly, sicd, edits>>

\* The outcomes of the sub-objects' derivations on one call: nothing can be
\* derived, or everything can (one outcome when nothing is left to derive).
DeriveOutcomes(s) ==
  IF \A g \in Derivable : s[g] THEN {{}} ELSE {{}, Derivable}

\* Whether ImageData.get_valid_vertex_data returns vertices, and the failure
\* of a projection that is not feasible (immaterial without vertices, since
\* define_geo_image_corners handles both failures alike, and when both sets
\* of corners are populated already).
CornerInputs(s) ==
  IF s.GeoData_ImageCorners /\ s.GeoData_ValidData
    THEN {[valid |-> FALSE, exc |-> "ValueError"]}
  ELSE {[valid |-> FALSE, exc |-> "ValueError"]} \cup
       [valid : {TRUE}, exc : ProjectionErrors]

DeriveCall ==
  \E ok \in DeriveOutcomes(sicd), inp \in CornerInputs(sicd) :
    \E r \in Derive(CallState(sicd, coa_projection, constructed), ok,
                    inp.valid, inp.exc) :
      /\ r.n <= MaxContexts
      /\ sicd' = r.s
      /\ coa_projection' = r.coa
      /\ constructed' = r.n
      /\ last' = [Outcome("derive") EXCEPT !.steps = r.steps, !.raised = r.raised]
      /\ UNCHANGED <<poly, edits>>

Next ==
  \/ SetAttribute
  \/ CanProjectCoordinates
  \/ DefineCoa
  \/ ProjectCoordinates
  \/ DeriveCall

Spec == Init /\ [][Next]_vars

(***************************************************************************)
(* Validation of a product                                                 *)
(***************************************************************************)

\* The products validated: every combination of populated and unpopulated
\* CollectionInfo, RadarMode, ModeType (level 0 to 3 along that path), Grid
\* and Grid.TimeCOAPoly (level 0 to 2), RadarCollection, ImageFormation
\* (absent, or with each value of ImageFormAlgo) and the three families.
ValidityProducts ==
  {[EmptySICD EXCEPT
      !.CollectionInfo = (ci >= 1),
      !.CollectionInfo_RadarMode = (ci >= 2),
      !.CollectionInfo_RadarMode_ModeType = (ci >= 3),
      !.Grid = (g >= 1),
      !.Grid_TimeCOAPoly = (g >= 2),
      !.RadarCollection = rc,
      !.ImageFormation = (a # "absent"),
      !.ImageFormation_ImageFormAlgo = (IF a = "absent" THEN NoneStr ELSE a),
      !.RgAzComp = ("RgAzComp" \in fams),
      !.PFA = ("PFA" \in fams),
      !.RMA = ("RMA" \in fams)] :
     ci \in 0..3, g \in 0..2, rc \in BOOLEAN,
     a \in {"absent", NoneStr} \cup AlgoValues,
     fams \in SUBSET {"RgAzComp", "PFA", "RMA"}}

ValidityInit ==
  /\ sicd \in ValidityProducts
  /\ coa_projection = <<>>
  /\ constructed = 0
  /\ edits = 0
  /\ last = Outcome("__init__")
  /\ poly = NoPoly

\* The segment identifier and list the product holds: read only when
\* ImageFormation and RadarCollection are populated.
SegmentInputs(s) ==
  IF s.ImageFormation /\ s.RadarCollection
    THEN [seg_id : SegmentIds, seg_list : SegmentLists]
  ELSE {[seg_id |-> NoneStr, seg_list |-> NoSegmentList]}

\* Whether ModeType is 'SPOTLIGHT': only a populated ModeType can be.
ModeInputs(s) == IF s.CollectionInfo_RadarMode_ModeType THEN BOOLEAN ELSE {FALSE}

\* Whether Grid.TimeCOAPoly.Coefs has shape (1, 1): only a populated
\* TimeCOAPoly has coefficients.
ShapeInputs(s) == IF s.Grid_TimeCOAPoly THEN BOOLEAN ELSE {FALSE}

BasicValidityCheck ==
  \E base \in BOOLEAN, seg \in SegmentInputs(sicd),
     spotlight \in ModeInputs(sicd), scalar \in ShapeInputs(sicd) :
    \E r \in {basic_validity_check(sicd, base, seg.seg_id, seg.seg_list,
                                   spotlight, scalar)} :
      /\ sicd' = r.s
      /\ last' = [Outcome("_basic_validity_check") EXCEPT
                    !.ret = r.ret, !.raised = r.raised,
                    !.errors = r.errors, !.warnings = r.warnings,
                    !.args = [base |-> base, seg_id |-> seg.seg_id,
                              seg_list |-> seg.seg_list,
                              spotlight |-> spotlight, scalar |-> scalar]]
      /\ UNCHANGED <<poly, coa_projection, constructed, edits>>

ValidateImageForm ==
  \E r \in {validate_image_form(sicd)} :
    /\ sicd' = r.s
    /\ last' = [Outcome("_validate_image_form") EXCEPT
                  !.ret = r.ret, !.errors = r.errors, !.warnings = r.warnings]
    /\ UNCHANGED <<poly, coa_projection, constructed, edits>>

ValidateImageSegmentId ==
  \E seg \in SegmentInputs(sicd) :
    \E r \in {validate_image_segment_id(sicd, seg.seg_id, seg.seg_list)} :
      /\ last' = [Outcome("_validate_image_segment_id") EXCEPT
                    !.ret = r.ret, !.errors = r.errors,
                    !.args = <<seg.seg_id, seg.seg_list>>]
      /\ UNCHANGED <<poly, sicd, coa_projection, constructed, edits>>

ValidityNext ==
  \/ BasicValidityCheck
  \/ ValidateImageForm
  \/ ValidateImageSegmentId

ValiditySpec == ValidityInit /\ [][ValidityNext]_vars

(***************************************************************************)
(* Actions on a polynomial                                                 *)
(***************************************************************************)

PolyInit ==
  /\ poly \in {NewPoly("Poly1D", <<c>>, <<>>) : c \in Coefs1D}
         \cup {NewPoly("Poly2D", <<c>>, <<>>) : c \in Coefs2D}
         \cup {NewPoly("XYZPoly", <<x, y, z>>, <<>>) :
                 x \in CoefsXYZ, y \in CoefsXYZ, z \in CoefsXYZ}
  /\ sicd = EmptySICD
  /\ coa_projection = <<>>
  /\ constructed = 0
  /\ edits = 0
  /\ last = Outcome("__init__")

\* Poly1DType.shift(t_0, alpha, return_poly)
Poly1DShift ==
  /\ poly.kind = "Poly1D"
  /\ \E t_0 \in Shifts, alpha \in Scales, return_poly \in BOOLEAN :
      \E r \in {Poly1D_shift(Receiver(poly), 1, t_0, alpha)} :
        /\ poly' = [poly EXCEPT !.heap = r.heap,
                      !.call = Call("shift", <<t_0, alpha>>, return_poly, <<r.ret>>,
                                    <<>>, NoneStr)]
        /\ UNCHANGED sicdvars

\* Poly1DType.derivative(der_order, return_poly)
Poly1DDerivative ==
  /\ poly.kind = "Poly1D"
  /\ \E der_order \in DerOrders, return_poly \in BOOLEAN :
      \E r \in {Poly1D_derivative(Receiver(poly), 1, der_order)} :
        /\ poly' = [poly EXCEPT !.heap = r.heap,
                      !.call = Call("derivative", <<der_order>>, return_poly,
                                    IF r.raised = NoneStr THEN <<r.ret>> ELSE <<>>,
                                    <<>>, r.raised)]
        /\ UNCHANGED sicdvars

\* Poly1DType.derivative_eval(x, der_order)
Poly1DDerivativeEval ==
  /\ poly.kind = "Poly1D"
  /\ \E x \in EvalArgs, der_order \in DerOrders :
      \E r \in {Poly1D_derivative(Receiver(poly), 1, der_order)} :
        /\ poly' = [poly EXCEPT !.heap = r.heap,
                      !.call = Call("derivative_eval", <<x, der_order>>, FALSE, <<>>,
                                    IF r.raised = NoneStr
                                      THEN <<PolyVal(x, r.heap[r.ret])>> ELSE <<>>,
                                    r.raised)]
        /\ UNCHANGED sicdvars

\* p = Poly1DType(Coefs=<the array a shift returned>), or the polynomial
\* a shift returned: the calls that follow are made on it.
Poly1DFromShift ==
  /\ poly.kind = "Poly1D"
  /\ poly.call.op = "shift"
  /\ poly.from = <<>>
  /\ poly' = NewPoly("Poly1D", <<poly.heap[poly.call.ret[1]]>>,
                     <<[coefs |-> poly.orig[1], t_0 |-> poly.call.args[1],
                        alpha |-> poly.call.args[2]]>>)
  /\ UNCHANGED sicdvars

\* Poly2DType.shift(t1_shift, t1_scale, t2_shift, t2_scale, return_poly)
Poly2DShift ==
  /\ poly.kind = "Poly2D"
  /\ \E t1_shift \in Shifts2D, t1_scale \in Scales2D, t2_shift \in Shifts2D,
       t2_scale \in Scales2D, return_poly \in BOOLEAN :
      \E r \in {Poly2D_shift(Receiver(poly), 1, t1_shift, t1_scale, t2_shift, t2_scale)} :
        /\ poly' = [poly EXCEPT !.heap = r.heap,
                      !.call = Call("shift", <<t1_shift, t1_scale, t2_shift, t2_scale>>,
                                    return_poly, <<r.ret>>, <<>>, NoneStr)]
        /\ UNCHANGED sicdvars

\* XYZPolyType.shift(t_0, alpha, return_poly)
XYZPolyShift ==
  /\ poly.kind = "XYZPoly"
  /\ \E t_0 \in Shifts, alpha \in Scales, return_poly \in BOOLEAN :
      \E r \in {XYZPoly_shift(Receiver(poly), poly.self, t_0, alpha)} :
        /\ poly' = [poly EXCEPT !.heap = r.heap,
                      !.call = Call("shift", <<t_0, alpha>>, return_poly, r.ret,
                                    <<>>, NoneStr)]
        /\ UNCHANGED sicdvars

\* XYZPolyType.derivative(der_order, return_poly)
XYZPolyDerivative ==
  /\ poly.kind = "XYZPoly"
  /\ \E der_order \in DerOrders, return_poly \in BOOLEAN :
      \E r \in {XYZPoly_derivative(Receiver(poly), poly.self, der_order)} :
        /\ poly' = [poly EXCEPT !.heap = r.heap,
                      !.call = Call("derivative", <<der_order>>, return_poly, r.ret,
                                    <<>>, r.raised)]
        /\ UNCHANGED sicdvars

\* XYZPolyType.derivative_eval(t, der_order): the derivative as a
\* polynomial, evaluated at t.
XYZPolyDerivativeEval ==
  /\ poly.kind = "XYZPoly"
  /\ \E t \in EvalArgs, der_order \in DerOrders :
      \E r \in {XYZPoly_derivative(Receiver(poly), poly.self, der_order)} :
        /\ poly' = [poly EXCEPT !.heap = r.heap,
                      !.call = Call("derivative_eval", <<t, der_order>>, FALSE, <<>>,
                                    IF r.raised = NoneStr
                                      THEN Array([i \in 1..Len(r.ret) |->
                                                    PolyVal(t, r.heap[r.ret[i]])])
                                      ELSE <<>>,
                                    r.raised)]
        /\ UNCHANGED sicdvars

PolyNext ==
  \/ Poly1DShift
  \/ Poly1DDerivative
  \/ Poly1DDerivativeEval
  \/ Poly1DFromShift
  \/ Poly2DShift
  \/ XYZPolyShift
  \/ XYZPolyDerivative
  \/ XYZPolyDerivativeEval

PolySpec == PolyInit /\ [][PolyNext]_vars

(***************************************************************************)
(* Properties                                                              *)
(***************************************************************************)

\* The last operation was a can_project_coordinates call; sicd and
\* coa_projection are then as they were at the call, which changes neither.
Called == last.op = "can_project_coordinates"

NoCache == coa_projection = <<>>

\* The fields the general (branch-independent) checks require.
GeneralPopulated(s) ==
  /\ s.GeoData /\ s.GeoData_SCP /\ s.GeoData_SCP_ECF
  /\ s.ImageData /\ s.ImageData_FirstRow /\ s.ImageData_FirstCol
  /\ s.ImageData_SCPPixel /\ s.ImageData_SCPPixel_Row /\ s.ImageData_SCPPixel_Col
  /\ s.Position /\ s.Position_ARPPoly
  /\ s.Grid /\ s.Grid_Row /\ s.Grid_Row_SS /\ s.Grid_Col /\ s.Grid_Col_SS
  /\ s.Grid_Type # NoneStr

\* Everything is populated except GeoData.SCP (and so its ECF).
AllButSCP(s) ==
  /\ \A f \in Flags \ {"GeoData_SCP", "GeoData_SCP_ECF"} : s[f]
  /\ ~s.GeoData_SCP
  /\ s.Grid_Type # NoneStr
  /\ s.ImageFormation_ImageFormAlgo # NoneStr

\* C1: with no cached context and every field populated except GeoData.SCP,
\* can_project_coordinates returns False and logs exactly one error, which
\* names GeoData.SCP.
C1_SCPMissingReported ==
  (Called /\ NoCache /\ AllButSCP(sicd)) =>
    (last.ret = FALSE /\ last.errors = <<"GeoData.SCP">>)

C1_Witness == Called /\ NoCache /\ AllButSCP(sicd) /\ ~last.ret

\* C2 as stated: in every reachable state, can_project_coordinates returns
\* True only if the general fields are all populated at the time of the call.
C2_FailsClosedAlways == (Called /\ last.ret) => GeneralPopulated(sicd)

\* C2 amended: while no projection context is cached, can_project_coordinates
\* returns True only if the general fields are all populated at the time of
\* the call.
C2_FailsClosedUncached ==
  (Called /\ NoCache /\ last.ret) => GeneralPopulated(sicd)

C2_Witness == Called /\ NoCache /\ last.ret /\ edits > 0

\* The per-branch parameters that are unpopulated, by the names the errors
\* cite.
MissingPFA(s) ==
  {n \in {"PFA", "PFA.PolarAngPoly", "PFA.SpatialFreqSFPoly"} :
     \/ n = "PFA" /\ ~s.PFA
     \/ n = "PFA.PolarAngPoly" /\ ~s.PFA_PolarAngPoly
     \/ n = "PFA.SpatialFreqSFPoly" /\ ~s.PFA_SpatialFreqSFPoly}

MissingRgAzComp(s) == ~s.RgAzComp \/ ~s.RgAzComp_AzSF

MissingINCA(s) ==
  \/ ~s.RMA \/ ~s.RMA_INCA
  \/ ~s.RMA_INCA_R_CA_SCP \/ ~s.RMA_INCA_TimeCAPoly \/ ~s.RMA_INCA_DRateSFPoly

IsAlgo(s, a) == s.ImageFormation /\ s.ImageFormation_ImageFormAlgo = a

\* C3: with no cached context and the general fields populated,
\* can_project_coordinates returns False when a parameter of the branch is
\* missing: RGAZIM with PFA (the one error citing a missing PFA parameter),
\* RGAZIM with RGAZCOMP, and RGZERO.
C3_BranchParameterMissing ==
  (Called /\ NoCache /\ GeneralPopulated(sicd)) =>
    /\ (sicd.Grid_Type = "RGAZIM" /\ IsAlgo(sicd, "PFA") /\ MissingPFA(sicd) # {}) =>
         (~last.ret /\ Len(last.errors) = 1 /\ last.errors[1] \in MissingPFA(sicd))
    /\ (sicd.Grid_Type = "RGAZIM" /\ IsAlgo(sicd, "PFA") /\ sicd.PFA
          /\ ~sicd.PFA_PolarAngPoly) => last.errors = <<"PFA.PolarAngPoly">>
    /\ (sicd.Grid_Type = "RGAZIM" /\ IsAlgo(sicd, "PFA") /\ sicd.PFA
          /\ sicd.PFA_PolarAngPoly /\ ~sicd.PFA_SpatialFreqSFPoly) =>
         last.errors = <<"PFA.SpatialFreqSFPoly">>
    /\ (sicd.Grid_Type = "RGAZIM" /\ IsAlgo(sicd, "RGAZCOMP") /\ MissingRgAzComp(sicd))
         => ~last.ret
    /\ (sicd.Grid_Type = "RGZERO" /\ MissingINCA(sicd)) => ~last.ret

C3_Witness ==
  /\ Called /\ NoCache /\ GeneralPopulated(sicd)
  /\ sicd.Grid_Type = "RGAZIM" /\ IsAlgo(sicd, "PFA")
  /\ sicd.PFA /\ ~sicd.PFA_PolarAngPoly /\ sicd.PFA_SpatialFreqSFPoly
  /\ ~last.ret

\* The same SICDType with Grid.TimeCOAPoly populated, and unpopulated.
WithTimeCOAPoly(s, v) == [s EXCEPT !.Grid_TimeCOAPoly = v]

\* C4: two SICDTypes that differ only in whether Grid.TimeCOAPoly is
\* populated get the same boolean and the same errors from
\* can_project_coordinates; the unpopulated one gets at most the one
\* warning about Grid.TimeCOAPoly more.
C4_TimeCOAPolyNotBlocking ==
  (Called /\ sicd.Grid) =>
    LET other == can_project_coordinates(
                   WithTimeCOAPoly(sicd, ~sicd.Grid_TimeCOAPoly), coa_projection)
        with == IF sicd.Grid_TimeCOAPoly THEN last ELSE other
        without == IF sicd.Grid_TimeCOAPoly THEN other ELSE last
    IN /\ with.ret = without.ret
       /\ with.errors = without.errors
       /\ with.warnings = <<>>
       /\ without.warnings \in {<<>>, <<"Grid.TimeCOAPoly">>}

C4_Witness ==
  /\ Called /\ NoCache /\ sicd.Grid /\ ~sicd.Grid_TimeCOAPoly
  /\ last.ret /\ last.warnings = <<"Grid.TimeCOAPoly">>

C6_PlaneTypesSupported ==
  (Called /\ NoCache /\ GeneralPopulated(sicd) /\ sicd.Grid_Type \in PlaneTypes) =>
    (last.ret <=> (sicd.Grid_Row_UVectECF /\ sicd.Grid_Col_UVectECF))

\* C7 as stated: with no cached context, can_project_coordinates returns
\* True only if ImageFormAlgo names the family the Grid.Type branch uses.
C7_AlgoMatchEveryBranch ==
  (Called /\ NoCache /\ last.ret) =>
    /\ sicd.Grid_Type = "RGAZIM" =>
         \/ IsAlgo(sicd, "PFA") /\ sicd.PFA
         \/ IsAlgo(sicd, "RGAZCOMP") /\ sicd.RgAzComp
    /\ sicd.Grid_Type = "RGZERO" =>
         IsAlgo(sicd, "RMA") /\ sicd.RMA /\ sicd.RMA_INCA

\* C7 amended: with no cached context, can_project_coordinates returns True
\* for RGAZIM only if ImageFormAlgo is PFA with PFA populated or RGAZCOMP
\* with RgAzComp populated, and for RGZERO only if RMA.INCA is populated
\* (ImageFormAlgo is not examined on the RGZERO branch).
C7_AlgoMatchRgAzim ==
  (Called /\ NoCache /\ last.ret) =>
    /\ sicd.Grid_Type = "RGAZIM" =>
         \/ IsAlgo(sicd, "PFA") /\ sicd.PFA
         \/ IsAlgo(sicd, "RGAZCOMP") /\ sicd.RgAzComp
    /\ sicd.Grid_Type = "RGZERO" => sicd.RMA /\ sicd.RMA_INCA

C7_Witness ==
  /\ Called /\ NoCache /\ last.ret
  /\ sicd.Grid_Type = "RGZERO" /\ ~IsAlgo(sicd, "RMA")

\* C8: a define_coa_projection call made while coa_projection is None and
\* can_project_coordinates is False leaves coa_projection None and
\* constructs no COAProjection, whatever its arguments.
C8_NoContextWithoutPrecheck ==
  [][(/\ last'.op = "define_coa_projection"
      /\ coa_projection = <<>>
      /\ ~can_project_coordinates(sicd, coa_projection).ret)
       => (coa_projection' = <<>> /\ constructed' = constructed)]_vars

C8_Witness ==
  /\ last.op = "define_coa_projection" /\ ~last.ret
  /\ "COAProjection cannot be defined" \in {last.errors[i] : i \in DOMAIN last.errors}
  /\ coa_projection = <<>> /\ constructed = 0

\* C9: once coa_projection is set, attribute assignments, derive(),
\* can_project_coordinates and project_* calls leave it the identical
\* object; only a define_coa_projection call with overide=True replaces it.
C9_CacheNeverInvalidated ==
  [][(coa_projection # <<>> /\ coa_projection' # coa_projection)
       => (last'.op = "define_coa_projection" /\ last'.overide)]_vars

C9_Witness ==
  /\ coa_projection # <<>> /\ constructed = 1
  /\ last.op = "derive"
  /\ ~GeneralPopulated(sicd)

StepsOf(names) == {i \in DOMAIN last.steps : last.steps[i] \in names}

\* Every step among `first` that ran did so before every step among `then`.
Before(first, then) == \A i \in StepsOf(first), j \in StepsOf(then) : i < j

RgAzCompSteps == {"Grid._derive_rg_az_comp", "RgAzComp._derive_parameters"}
PFASteps == {"PFA._derive_parameters", "Grid._derive_pfa"}
RMASteps == {"RMA._derive_parameters", "Grid._derive_rma"}
AlgorithmSteps == RgAzCompSteps \cup PFASteps \cup RMASteps
CornerSteps == {"define_geo_image_corners", "define_geo_valid_data"}

\* The part of the order common to the claim and its amendment: SCP time,
\* Grid time-COA polynomial, ARP position polynomial, geodetic SCP, and at
\* most one algorithm branch.
OrderedPrefix ==
  /\ Before({"SCPCOA._derive_scp_time"}, {"Grid._derive_time_coa_poly"})
  /\ Before({"Grid._derive_time_coa_poly"}, {"Position._derive_arp_poly"})
  /\ Before({"Position._derive_arp_poly"}, {"GeoData.derive"})
  /\ Cardinality({b \in {RgAzCompSteps, PFASteps, RMASteps} : StepsOf(b) # {}}) <= 1

\* C10 as stated: derive() runs SCP time, Grid time-COA polynomial, ARP
\* position polynomial, geodetic SCP, the geodetic corners, the
\* algorithm-specific derivation, the radiometric derivation, in this order.
C10_OrderAsStated ==
  last.op = "derive" =>
    /\ OrderedPrefix
    /\ Before({"GeoData.derive"}, CornerSteps)
    /\ Before(CornerSteps, AlgorithmSteps)
    /\ Before(AlgorithmSteps, {"Radiometric._derive_parameters"})

\* C10 amended: derive() runs SCP time, Grid time-COA polynomial, ARP
\* position polynomial, geodetic SCP, the algorithm-specific derivation (at
\* most one branch), the image corners, the valid-data corners, the
\* radiometric derivation, in this order.
C10_OrderOfDerive ==
  last.op = "derive" =>
    /\ OrderedPrefix
    /\ Before({"GeoData.derive"}, AlgorithmSteps)
    /\ Before(AlgorithmSteps, CornerSteps)
    /\ Before({"define_geo_image_corners"}, {"define_geo_valid_data"})
    /\ Before(CornerSteps, {"Radiometric._derive_parameters"})

C10_Witness ==
  /\ last.op = "derive"
  /\ StepsOf({"SCPCOA._derive_scp_time"}) # {}
  /\ StepsOf({"Grid._derive_time_coa_poly"}) # {}
  /\ StepsOf({"Position._derive_arp_poly"}) # {}
  /\ StepsOf({"GeoData.derive"}) # {}
  /\ StepsOf(PFASteps) # {}
  /\ StepsOf({"define_geo_valid_data"}) # {}
  /\ StepsOf({"Radiometric._derive_parameters"}) # {}

\* ---- Validation ----

Validated == last.op = "_basic_validity_check"

Families(s) == {a \in {"RgAzComp", "PFA", "RMA"} : s[a]}

\* C11: whenever more than one of RgAzComp, PFA, RMA is populated,
\* _basic_validity_check returns False; and ImageFormType is a populated
\* family, or 'OTHER' when none is populated.
C11_ExclusivityValidated ==
  /\ (Validated /\ Cardinality(Families(sicd)) > 1)
        => (last.raised = NoneStr /\ ~last.ret)
  /\ (Families(sicd) = {} => ImageFormType(sicd) = "OTHER")
  /\ (Families(sicd) # {} => ImageFormType(sicd) \in Families(sicd))

\* C12: _basic_validity_check returns True or False and never raises, for
\* every combination of populated and unpopulated CollectionInfo,
\* RadarMode, ModeType, Grid, Grid.TimeCOAPoly, ImageFormation and
\* RadarCollection.
C12_ValidationNeverRaises == Validated => last.raised = NoneStr

\* ---- Polynomials ----

\* The last call was `op` on a polynomial of class kind, and it returned.
IsCall(kind, op) ==
  poly.kind = kind /\ poly.call.op = op /\ poly.call.raised = NoneStr

\* The i-th array the last call returned, and the receiver's i-th array.
Returned(i) == poly.heap[poly.call.ret[i]]
Coefs(i) == poly.heap[poly.self[i]]

\* More points than a polynomial of the model has coefficients: two
\* polynomials that agree on them are equal.
SamplePoints == (0 - MaxLen)..MaxLen

\* C13: shift(0, 1) of a Poly1DType and shift(0, 1, 0, 1) of a Poly2DType
\* return coefficients equal element for element to the receiver's Coefs.
C13_IdentityShiftExact ==
  /\ (IsCall("Poly1D", "shift") /\ poly.call.args = <<0, 1>>)
        => Returned(1) = Coefs(1)
  /\ (IsCall("Poly2D", "shift") /\ poly.call.args = <<0, 1, 0, 1>>)
        => Returned(1) = Coefs(1)

C13_Witness ==
  /\ IsCall("Poly1D", "shift") /\ poly.call.args = <<0, 1>>
  /\ Coefs(1) = <<0, 1, 1>>
  /\ Returned(1) = <<0, 1, 1>>

\* C14: Poly1DType.shift(t_0, alpha) returns the coefficients of Q with
\* Q(t) = P(alpha*(t - t_0)) for every t, t_0 and alpha.
C14_ShiftRecentresThenScales ==
  IsCall("Poly1D", "shift") =>
    \A t \in SamplePoints :
      PolyVal(t, Returned(1)) =
        PolyVal(poly.call.args[2] * (t - poly.call.args[1]), Coefs(1))

\* C15: Poly2DType.shift returns the coefficients of Q with
\* Q(t1, t2) = P(t1_scale*(t1 - t1_shift), t2_scale*(t2 - t2_shift)).
C15_Shift2DRecentresEachAxis ==
  IsCall("Poly2D", "shift") =>
    \A t1 \in SamplePoints, t2 \in SamplePoints :
      PolyVal2D(t1, t2, Returned(1)) =
        PolyVal2D(poly.call.args[2] * (t1 - poly.call.args[1]),
                  poly.call.args[4] * (t2 - poly.call.args[3]), Coefs(1))

\* C16: for a Poly2DType P and shifts a, b: shift(t1_shift=a) and then
\* shift(t2_shift=b) on its result gives the same coefficient grid as
\* shift(t2_shift=b) and then shift(t1_shift=a).
C16_AxisShiftsCommute ==
  /\ (IsCall("Poly2D", "shift") /\ poly.call.args[2] = 1
        /\ poly.call.args[3] = 0 /\ poly.call.args[4] = 1)
        => \A b \in Shifts2D :
             Shift2D(Returned(1), 0, 1, b, 1) =
               Shift2D(Shift2D(Coefs(1), 0, 1, b, 1), poly.call.args[1], 1, 0, 1)
  /\ (IsCall("Poly2D", "shift") /\ poly.call.args[1] = 0
        /\ poly.call.args[2] = 1 /\ poly.call.args[4] = 1)
        => \A a \in Shifts2D :
             Shift2D(Returned(1), a, 1, 0, 1) =
               Shift2D(Shift2D(Coefs(1), a, 1, 0, 1), 0, 1, poly.call.args[3], 1)

C16_Witness ==
  /\ IsCall("Poly2D", "shift")
  /\ poly.call.args = <<1, 1, 0, 1>>
  /\ Coefs(1) = << <<0, 1>>, <<1, 1>> >>
  /\ Returned(1) # Coefs(1)

\* C17: one Poly2DType.shift call given both axes' parameters returns the
\* coefficients of a call that transforms only axis 1 followed by a call
\* that transforms only axis 2.
C17_AxesIndependent ==
  IsCall("Poly2D", "shift") =>
    Returned(1) =
      Shift2D(Shift2D(Coefs(1), poly.call.args[1], poly.call.args[2], 0, 1),
              0, 1, poly.call.args[3], poly.call.args[4])

\* The parameters of the one shift that two successive shifts amount to.
Combined(t1, a1, t2, a2) == [t_0 |-> t1 + a1 * t2, alpha |-> a1 * a2]

\* C18: shift(shift(P, t1, a1), t2, a2) = shift(P, t, a) with (t, a) a
\* function of (t1, a1, t2, a2) alone; two pure shifts compose to the shift
\* by t1 + t2 and two pure rescales to the rescale by a1*a2.
C18_ShiftComposes ==
  (IsCall("Poly1D", "shift") /\ poly.from # <<>>) =>
    LET P == poly.from[1].coefs
        t1 == poly.from[1].t_0
        a1 == poly.from[1].alpha
        t2 == poly.call.args[1]
        a2 == poly.call.args[2]
    IN /\ Returned(1) = Shift1D(P, Combined(t1, a1, t2, a2).t_0,
                                Combined(t1, a1, t2, a2).alpha)
       /\ (a1 = 1 /\ a2 = 1) => Returned(1) = Shift1D(P, t1 + t2, 1)
       /\ (t1 = 0 /\ t2 = 0) => Returned(1) = Shift1D(P, 0, a1 * a2)

C18_Witness ==
  /\ IsCall("Poly1D", "shift") /\ poly.from # <<>>
  /\ poly.from[1].coefs = <<0, 1, 1>>
  /\ poly.from[1].t_0 = 1 /\ poly.from[1].alpha = 2
  /\ poly.call.args = <<0 - 1, 2>>

\* C19: after any call of shift, derivative or derivative_eval, the
\* receiver's coefficient arrays hold the values they were constructed
\* with, and no returned array is one of the receiver's arrays.
C19_ReceiverNeverMutated ==
  /\ \A i \in DOMAIN poly.self : Coefs(i) = poly.orig[i]
  /\ \A i \in DOMAIN poly.call.ret :
       \A j \in DOMAIN poly.self : poly.call.ret[i] # poly.self[j]

C19_Witness ==
  /\ IsCall("Poly1D", "shift")
  /\ poly.call.args = <<1, 2>>
  /\ poly.call.return_poly
  /\ poly.orig[1] = <<1, 1, 1>>
  /\ Returned(1) # poly.orig[1]

RECURSIVE Factorial(_)
Factorial(n) == IF n = 0 THEN 1 ELSE n * Factorial(n - 1)

\* C20: Poly1DType.derivative(k) returns the coefficients c[j+k]*(j+k)!/j!
\* (j = 0, 1, ...), a single zero once k exceeds the degree, the original
\* coefficients for k = 0, and fails without a value for k < 0.
C20_DerivativeCoefficients ==
  (poly.kind = "Poly1D" /\ poly.call.op = "derivative") =>
    LET k == poly.call.args[1]
        c == Coefs(1)
    IN /\ k < 0 => (poly.call.raised # NoneStr /\ poly.call.ret = <<>>)
       /\ k >= 0 => poly.call.raised = NoneStr
       /\ k = 0 => Returned(1) = c
       /\ (0 <= k /\ k < Len(c)) =>
            /\ Len(Returned(1)) = Len(c) - k
            /\ \A j \in 0..(Len(c) - k - 1) :
                 Returned(1)[j + 1] =
                   c[j + k + 1] * (Factorial(j + k) \div Factorial(j))
       /\ k >= Len(c) => Returned(1) = <<0>>

C20_Witness ==
  /\ IsCall("Poly1D", "derivative")
  /\ poly.call.args = <<2>>
  /\ Coefs(1) = <<1, 1, 1>>
  /\ Returned(1) = <<2>>

(***************************************************************************)
(* blocks.py: the Coefs property of Poly1DType and Poly2DType.  A value is *)
(* what numpy sees of it: its Python type, its element type, its shape and *)
(* its elements in row-major order.                                        *)
(***************************************************************************)
MaxDim == 3

\* The lengths an axis takes.
AxisLengths == {1, 2}

RECURSIVE ShapesOf(_)
ShapesOf(n) ==
  IF n = 0 THEN {<<>>}
  ELSE {Append(s, d) : s \in ShapesOf(n - 1), d \in AxisLengths}

RECURSIVE Size(_)
Size(shape) == IF shape = <<>> THEN 1 ELSE Head(shape) * Size(Tail(shape))

Elements(shape, v) == Array([i \in 1..Size(shape) |-> (v + i - 1) % 2])

NoneValue == [type |-> "NoneType", dtype |-> NoneStr, shape |-> <<>>, data |-> <<>>]

\* None, a number, a string, a (nested) list or tuple of numbers, an
\* ndarray of 0..MaxDim dimensions.
CoefsValues ==
  {NoneValue}
  \cup {[type |-> t, dtype |-> NoneStr, shape |-> <<>>, data |-> <<1>>] :
          t \in {"float", "str"}}
  \cup {[type |-> t, dtype |-> d, shape |-> s, data |-> Elements(s, v)] :
          t \in {"list", "tuple"}, d \in {"int", "float"},
          s \in UNION {ShapesOf(n) : n \in 1..MaxDim}, v \in CoefValues}
  \cup {[type |-> "ndarray", dtype |-> d, shape |-> s, data |-> Elements(s, v)] :
          d \in {"float64", "float32", "int64"},
          s \in UNION {ShapesOf(n) : n \in 0..MaxDim}, v \in CoefValues}

\* numpy.array(value, dtype=numpy.float64) of a list or tuple of numbers.
NumpyArray(value) == [value EXCEPT !.type = "ndarray", !.dtype = "float64"]

\* numpy.cast[numpy.float64](value)
NumpyCast(value) == [value EXCEPT !.dtype = "float64"]

\* The setter that stores the converted value before it validates it.
Coefs_setter_StoreFirst(ndim, coefs, value) ==
  IF value.type \in {"list", "tuple", "ndarray"}
    THEN [coefs |-> NumpyArray(value),
          raised |-> IF Len(value.shape) # ndim THEN "ValueError" ELSE NoneStr]
  ELSE [coefs |-> coefs, raised |-> "ValueError"]

\* Coefs.setter of Poly1DType (ndim = 1) and of Poly2DType (ndim = 2): the
\* coefficients the object holds afterwards, and the exception raised.
Coefs_setter(ndim, coefs, value) ==
  IF value.type = "NoneType" THEN [coefs |-> coefs, raised |-> "ValueError"]
  ELSE \* a set of one element, so that it is computed once
    TheOne({IF v.type # "ndarray" THEN [coefs |-> coefs, raised |-> "ValueError"]
            ELSE IF Len(v.shape) # ndim
              THEN [coefs |-> coefs, raised |-> "ValueError"]
            ELSE IF v.dtype # "float64"
              THEN [coefs |-> NumpyCast(v), raised |-> NoneStr]
            ELSE [coefs |-> v, raised |-> NoneStr] :
            v \in {IF value.type \in {"list", "tuple"} THEN NumpyArray(value)
                   ELSE value}})

\* The dimension each class requires of its coefficients.
CoefsDim == [Poly1DType |-> 1, Poly2DType |-> 2]

\* __init__: self._coefs = None; self.Coefs = Coefs.  The object exists
\* when the assignment did not raise.
CoefsInit ==
  /\ \E kind \in DOMAIN CoefsDim, value \in CoefsValues :
       \E r \in {Coefs_setter(CoefsDim[kind], NoneValue, value)} :
         /\ r.raised = NoneStr
         /\ poly = [kind |-> kind, Coefs |-> r.coefs]
  /\ sicd = EmptySICD
  /\ coa_projection = <<>>
  /\ constructed = 0
  /\ edits = 0
  /\ last = Outcome("__init__")

\* poly.Coefs = value
SetCoefs ==
  \E value \in CoefsValues :
    \E r \in {Coefs_setter(CoefsDim[poly.kind], poly.Coefs, value)} :
      /\ poly' = [poly EXCEPT !.Coefs = r.coefs]
      /\ last' = [Outcome("Coefs") EXCEPT
                    !.args = value, !.raised = r.raised, !.ret = r.raised = NoneStr]
      /\ UNCHANGED <<sicd, coa_projection, constructed, edits>>

CoefsSpec == CoefsInit /\ [][SetCoefs]_vars

\* A value the setters are to refuse: None, anything that is not a list,
\* tuple or ndarray, and an array of another dimension than the class's.
Refused(kind, value) ==
  \/ value.type \notin {"list", "tuple", "ndarray"}
  \/ Len(value.shape) # CoefsDim[kind]

WellFormed(p) ==
  /\ p.Coefs.type = "ndarray"
  /\ p.Coefs.dtype = "float64"
  /\ Len(p.Coefs.shape) = CoefsDim[p.kind]

\* C21: before and after every assignment to Coefs the coefficients of a
\* Poly1DType are a one-dimensional and those of a Poly2DType a
\* two-dimensional float64 ndarray; assigning None, a non-array or an array
\* of the wrong dimension raises ValueError and leaves the coefficients as
\* they were.
C21_CoefsStayValid ==
  [][/\ WellFormed(poly)
     /\ WellFormed(poly')
     /\ Refused(poly.kind, last'.args) =>
          (last'.raised = "ValueError" /\ poly'.Coefs = poly.Coefs)]_vars

C21_Witness ==
  /\ last.op = "Coefs"
  /\ last.raised = "ValueError"
  /\ last.args.type = "ndarray"
  /\ last.args.shape = <<2, 2>>
  /\ poly.kind = "Poly1DType"
  /\ poly.Coefs.shape = <<2>>

(***************************************************************************)
(* blocks.py: the from_array class methods of the coordinate types.        *)
(***************************************************************************)
MaxArrayLen == 4

\* The number of coordinates each class reads from the array.
Coordinates ==
  [XYZType |-> 3, LatLonType |-> 2, LatLonArrayElementType |-> 2,
   LatLonRestrictionType |-> 2, LatLonHAEType |-> 3,
   LatLonHAERestrictionType |-> 3, RowColType |-> 2,
   RowColArrayElement |-> 2, XYZPolyType |-> 3]

ArrayTypes == {"ndarray", "list", "tuple"}

\* The array argument: None, a number, a string, a list, tuple or ndarray
\* of 0..MaxArrayLen entries (the k-th entry is k), and the 0-dimensional
\* ndarray, which has no len().
FromArrayValues ==
  {[type |-> t, entries |-> <<>>, sized |-> FALSE] :
     t \in {"NoneType", "float", "str", "ndarray"}}
  \cup {[type |-> t, entries |-> Array([k \in 1..n |-> k]), sized |-> TRUE] :
          t \in ArrayTypes, n \in 0..MaxArrayLen}

\* cls.from_array(array): the object returned (None, or the keyword
\* arguments cls is constructed with), and the exception raised.
from_array(cls, array) ==
  IF array.type = "NoneType" THEN [ret |-> NoneStr, raised |-> NoneStr]
  ELSE IF array.type \in ArrayTypes
    THEN IF ~array.sized THEN [ret |-> NoneStr, raised |-> "TypeError"]
         ELSE IF Len(array.entries) < Coordinates[cls]
           THEN [ret |-> NoneStr, raised |-> "ValueError"]
         ELSE [ret |-> [class |-> cls,
                        kwargs |-> SubSeq(array.entries, 1, Coordinates[cls])],
               raised |-> NoneStr]
  ELSE [ret |-> NoneStr, raised |-> "ValueError"]

FromArrayInit ==
  /\ poly = NoPoly
  /\ sicd = EmptySICD
  /\ coa_projection = <<>>
  /\ constructed = 0
  /\ edits = 0
  /\ last = Outcome("__init__")

\* obj = cls.from_array(array); obj keeps its value when the call raises.
FromArray ==
  \E cls \in DOMAIN Coordinates, array \in FromArrayValues :
    \E r \in {from_array(cls, array)} :
      /\ poly' = IF r.raised = NoneStr THEN r.ret ELSE poly
      /\ last' = [Outcome("from_array") EXCEPT
                    !.args = <<cls, array>>, !.raised = r.raised,
                    !.ret = r.raised = NoneStr]
      /\ UNCHANGED <<sicd, coa_projection, constructed, edits>>

FromArraySpec == FromArrayInit /\ [][FromArray]_vars

\* C22: from_array raises ValueError for every list, tuple or ndarray whose
\* length is not the number of coordinates of the class and for every
\* argument other than None that is none of these; for None it returns None.
C22_WrongLengthRejected ==
  last.op = "from_array" =>
    LET cls == last.args[1]
        array == last.args[2]
    IN /\ array.type = "NoneType" => (last.raised = NoneStr /\ poly = NoneStr)
       /\ array.type \notin ArrayTypes \cup {"NoneType"} =>
            last.raised = "ValueError"
       /\ (array.type \in ArrayTypes /\ array.sized
             /\ Len(array.entries) # Coordinates[cls]) =>
            last.raised = "ValueError"

(***************************************************************************)
(* SICD.py: project_ground_to_image hands the call to                      *)
(* sarpy.geometry.point_projection.ground_to_image, whose iteration is     *)
(* modelled as the specification describes it: iterate, stop when the      *)
(* ground-plane residual falls below the tolerance or the maximum          *)
(* iteration count is reached, return the estimate, the residual and the   *)
(* iteration count.  Residuals are whole multiples of a unit.              *)
(***************************************************************************)
MaxIterations == 4

Tolerance == 1

\* The residual displacement an iteration can end with.
Residuals == 0..3

\* The loop that stops on a small residual only.
Continue_NoCap(delta_gpn, iteration) == delta_gpn >= Tolerance

\* Whether another iteration follows.
Continue(delta_gpn, iteration) ==
  delta_gpn >= Tolerance /\ iteration < MaxIterations

\* One iteration that ends with the residual delta_gpn.
Iterate(st, delta_gpn) ==
  [pc |-> IF Continue(delta_gpn, st.iterations + 1) THEN "iterate" ELSE "returned",
   iterations |-> st.iterations + 1,
   residuals |-> Append(st.residuals, delta_gpn)]

\* sicd.project_ground_to_image(coords) is called on a product that can
\* project coordinates.
GroundToImageInit ==
  /\ sicd \in {FullSICD(t, "PFA") : t \in GridTypeValues}
  /\ can_project_coordinates(sicd, <<>>).ret
  /\ coa_projection = <<>>
  /\ constructed = 0
  /\ edits = 0
  /\ last = Outcome("__init__")
  /\ poly = [pc |-> "iterate", iterations |-> 0, residuals |-> <<>>]

GroundToImageIterate ==
  /\ poly.pc = "iterate"
  /\ \E delta_gpn \in Residuals :
       /\ poly' = Iterate(poly, delta_gpn)
       /\ last' = IF poly'.pc = "returned"
                    THEN [Outcome("project_ground_to_image") EXCEPT
                            !.ret = TRUE,
                            !.args = <<delta_gpn, poly'.iterations>>]
                  ELSE last
  /\ UNCHANGED <<sicd, coa_projection, constructed, edits>>

GroundToImageSpec ==
  GroundToImageInit /\ [][GroundToImageIterate]_vars
    /\ WF_vars(GroundToImageIterate)

\* The first iteration whose residual is below the tolerance (0 if none).
FirstBelow(residuals) ==
  IF \E i \in 1..Len(residuals) : residuals[i] < Tolerance
    THEN CHOOSE i \in 1..Len(residuals) :
           /\ residuals[i] < Tolerance
           /\ \A j \in 1..(i - 1) : residuals[j] >= Tolerance
  ELSE 0

\* C23: ground_to_image returns, after at most MaxIterations iterations and
\* without raising: at the first iteration whose residual is below the
\* tolerance, or, when there is none, with the iteration count equal to
\* MaxIterations and the (finite) residual of the last iteration.
C23_TerminatesWithinCap ==
  /\ [](/\ poly.iterations <= MaxIterations
        /\ poly.pc = "returned" =>
             /\ last.raised = NoneStr
             /\ last.args = <<poly.residuals[poly.iterations], poly.iterations>>
             /\ last.args[1] \in Nat
             /\ poly.iterations =
                  IF FirstBelow(poly.residuals) = 0 THEN MaxIterations
                  ELSE FirstBelow(poly.residuals))
  /\ <>(poly.pc = "returned")

C23_Witness ==
  /\ poly.pc = "returned"
  /\ FirstBelow(poly.residuals) = 0
  /\ last.op = "project_ground_to_image"
  /\ last.args = <<2, MaxIterations>>

(***************************************************************************)
(* SICD.py: a product whose projection context is cached.                  *)
(***************************************************************************)

\* The complete products after define_coa_projection() with its default
\* arguments.  Attribute assignments, can_project_coordinates and
\* define_coa_projection follow.
CachedInit ==
  /\ sicd \in {FullSICD(t, a) : t \in GridTypeValues, a \in AlgoValues}
  /\ can_project_coordinates(sicd, <<>>).ret
  /\ coa_projection = <<COAProjection(1, DefaultArgs)>>
  /\ constructed = 1
  /\ edits = 0
  /\ last = [Outcome("define_coa_projection") EXCEPT
               !.overide = TRUE, !.ret = TRUE, !.args = DefaultArgs]
  /\ poly = NoPoly

CachedNext ==
  \/ SetAttribute
  \/ CanProjectCoordinates
  \/ DefineCoa

CachedSpec == CachedInit /\ [][CachedNext]_vars

\* C24: with a context cached, define_coa_projection(overide=False) leaves
\* coa_projection the identical object whatever arguments it is given, and
\* define_coa_projection(overide=True) replaces it with a new context built
\* from the arguments of the call.
C24_OverideHonoured ==
  [][(last'.op = "define_coa_projection" /\ coa_projection # <<>>) =>
       IF last'.overide
         THEN /\ coa_projection' # coa_projection
              /\ coa_projection' = <<COAProjection(constructed + 1, last'.args)>>
              /\ constructed' = constructed + 1
       ELSE /\ coa_projection' = coa_projection
            /\ constructed' = constructed]_vars

\* overide=False with arguments other than the cached context's.
C24_Witness ==
  /\ last.op = "define_coa_projection"
  /\ ~last.overide
  /\ coa_projection # <<>>
  /\ last.args # coa_projection[1].args
  /\ constructed = 1

\* C26: while a context is cached can_project_coordinates returns True and
\* logs nothing, whatever the metadata hold; after required fields have
\* been cleared, define_coa_projection(overide=True) still constructs a new
\* context.
C26_CacheShortCircuitsGate ==
  /\ (last.op = "can_project_coordinates" /\ coa_projection # <<>>) =>
       (last.ret /\ last.errors = <<>> /\ last.warnings = <<>>)
  /\ (last.op = "define_coa_projection" /\ last.overide /\ constructed >= 2) =>
       /\ last.ret
       /\ last.errors = <<>>
       /\ coa_projection = <<COAProjection(constructed, last.args)>>

C26_Witness ==
  /\ last.op = "define_coa_projection"
  /\ last.overide /\ last.ret
  /\ constructed = 2
  /\ ~GeneralPopulated(sicd)
  /\ ~can_project_coordinates(sicd, <<>>).ret

(***************************************************************************)
(* Properties of _validate_spotlight_mode, _validate_image_form and        *)
(* _validate_image_segment_id, over ValiditySpec                           *)
(***************************************************************************)

\* C25: _basic_validity_check returns False when ModeType is 'SPOTLIGHT'
\* and Grid.TimeCOAPoly is populated with coefficients of a shape other
\* than (1, 1).
C25_SpotlightEnforced ==
  (/\ last.op = "_basic_validity_check"
   /\ sicd.CollectionInfo_RadarMode_ModeType /\ last.args.spotlight
   /\ sicd.Grid_TimeCOAPoly /\ ~last.args.scalar) =>
    (last.raised = NoneStr /\ ~last.ret)

\* The tag _validate_image_form is to leave: the upper-cased ImageFormType.
ExpectedAlgo(s) ==
  IF s.RgAzComp THEN "RGAZCOMP"
  ELSE IF s.PFA THEN "PFA"
  ELSE IF s.RMA THEN "RMA"
  ELSE "OTHER"

\* C27: whenever _validate_image_form returns True, ImageFormAlgo is the
\* upper-cased ImageFormType afterwards; the method changes no attribute
\* other than ImageFormAlgo; and a second call returns the same value and
\* changes nothing.
C27_ImageFormNormalised ==
  [][last'.op = "_validate_image_form" =>
       /\ last'.ret =>
            /\ sicd'.ImageFormation_ImageFormAlgo = ExpectedAlgo(sicd')
            /\ sicd'.ImageFormation_ImageFormAlgo \in AlgoValues
       /\ \A f \in DOMAIN sicd \ {"ImageFormation_ImageFormAlgo"} :
            sicd'[f] = sicd[f]
       /\ validate_image_form(sicd').s = sicd'
       /\ validate_image_form(sicd').ret = last'.ret]_vars

C27_Witness ==
  /\ last.op = "_validate_image_form"
  /\ last.ret
  /\ last.warnings = <<"ImageFormAlgo changed">>
  /\ sicd.RgAzComp
  /\ sicd.ImageFormation_ImageFormAlgo = "RGAZCOMP"

\* C30: _validate_image_segment_id returns False if ImageFormation or
\* RadarCollection is None; otherwise it returns True exactly when
\* SegmentIdentifier and SegmentList are both unpopulated, or both are
\* populated and SegmentIdentifier is the Identifier of an entry of the
\* list.
C30_SegmentIdConsistent ==
  last.op = "_validate_image_segment_id" =>
    LET seg_id == last.args[1]
        seg_list == last.args[2]
    IN /\ last.raised = NoneStr
       /\ IF ~sicd.ImageFormation \/ ~sicd.RadarCollection THEN ~last.ret
          ELSE last.ret <=>
                 \/ seg_id = NoneStr /\ seg_list.none
                 \/ /\ seg_id # NoneStr
                    /\ ~seg_list.none
                    /\ seg_id \in {seg_list.ids[i] : i \in DOMAIN seg_list.ids}

C30_Witness ==
  /\ last.op = "_validate_image_segment_id"
  /\ last.ret
  /\ last.args[1] = "SEG2"
  /\ last.args[2].ids = <<"SEG0", "SEG2">>

\* C28: a projection that fails with ValueError or AttributeError makes
\* neither define_geo_image_corners nor define_geo_valid_data raise, so
\* derive() returns normally.
C28_CornersBestEffort ==
  last.op = "derive" => last.raised \notin ProjectionErrors

(***************************************************************************)
(* SICD.py: apply_reference_frequency.  The product is the four objects    *)
(* the method touches (populated or None), RadarCollection.RefFreqIndex,   *)
(* and for each object the reference frequencies its own                   *)
(* _apply_reference_frequency has been called with, in order.              *)
(***************************************************************************)
MaxApplications == 2

\* The objects after RadarCollection, in the order the method visits them.
FrequencyObjects == <<"ImageFormation", "Antenna", "RMA">>

\* RadarCollection.RefFreqIndex: None, 0, or a positive index.
RefFreqIndexValues == {NoneStr, "0", "1"}

ReferenceFrequencies == {1, 2}

RefFreqProducts ==
  {[RadarCollection |-> rc, RefFreqIndex |-> IF rc THEN i ELSE NoneStr,
    ImageFormation |-> im, Antenna |-> an, RMA |-> rma,
    applied |-> [RadarCollection |-> <<>>, ImageFormation |-> <<>>,
                 Antenna |-> <<>>, RMA |-> <<>>]] :
     rc \in BOOLEAN, i \in RefFreqIndexValues,
     im \in BOOLEAN, an \in BOOLEAN, rma \in BOOLEAN}

\* obj._apply_reference_frequency(reference_frequency)
ApplyTo(s, obj, reference_frequency) ==
  [s EXCEPT !.applied[obj] = Append(@, reference_frequency)]

RECURSIVE ApplyWherePopulated(_, _, _)
ApplyWherePopulated(s, objs, reference_frequency) ==
  IF objs = <<>> THEN s
  ELSE ApplyWherePopulated(
         IF s[Head(objs)] THEN ApplyTo(s, Head(objs), reference_frequency) ELSE s,
         Tail(objs), reference_frequency)

\* apply_reference_frequency that tests RefFreqIndex after the frequency
\* has been applied to RadarCollection.
apply_reference_frequency_ApplyFirst(s, reference_frequency) ==
  IF ~s.RadarCollection THEN [s |-> s, raised |-> "ValueError"]
  ELSE IF s.RefFreqIndex \in {NoneStr, "0"}
    THEN [s |-> ApplyTo(s, "RadarCollection", reference_frequency),
          raised |-> "ValueError"]
  ELSE [s |-> ApplyWherePopulated(
                ApplyTo(s, "RadarCollection", reference_frequency),
                FrequencyObjects, reference_frequency),
        raised |-> NoneStr]

\* apply_reference_frequency(reference_frequency): the product afterwards
\* and the exception raised.
apply_reference_frequency(s, reference_frequency) ==
  IF ~s.RadarCollection THEN [s |-> s, raised |-> "ValueError"]
  ELSE IF s.RefFreqIndex \in {NoneStr, "0"}       \* not RefFreqIndex
    THEN [s |-> s, raised |-> "ValueError"]
  ELSE [s |-> ApplyWherePopulated(
                ApplyTo(s, "RadarCollection", reference_frequency),
                FrequencyObjects, reference_frequency),
        raised |-> NoneStr]

RefFreqInit ==
  /\ sicd \in RefFreqProducts
  /\ coa_projection = <<>>
  /\ constructed = 0
  /\ edits = 0
  /\ last = Outcome("__init__")
  /\ poly = NoPoly

ApplyReferenceFrequency ==
  /\ Len(sicd.applied.RadarCollection) < MaxApplications
  /\ \E reference_frequency \in ReferenceFrequencies :
       \E r \in {apply_reference_frequency(sicd, reference_frequency)} :
         /\ sicd' = r.s
         /\ last' = [Outcome("apply_reference_frequency") EXCEPT
                       !.raised = r.raised, !.ret = r.raised = NoneStr,
                       !.args = <<reference_frequency>>]
  /\ UNCHANGED <<poly, coa_projection, constructed, edits>>

RefFreqSpec == RefFreqInit /\ [][ApplyReferenceFrequency]_vars

\* C29: apply_reference_frequency raises ValueError and changes nothing
\* when RadarCollection is None or RefFreqIndex is None or 0; otherwise it
\* applies the frequency to RadarCollection and to exactly those of
\* ImageFormation, Antenna and RMA that are populated.
C29_FailsBeforeChanging ==
  [][last'.op = "apply_reference_frequency" =>
       IF ~sicd.RadarCollection \/ sicd.RefFreqIndex \in {NoneStr, "0"}
         THEN last'.raised = "ValueError" /\ sicd' = sicd
       ELSE /\ last'.raised = NoneStr
            /\ \A obj \in DOMAIN sicd.applied :
                 sicd'.applied[obj] =
                   IF sicd[obj] THEN Append(sicd.applied[obj], last'.args[1])
                   ELSE sicd.applied[obj]
            /\ [sicd' EXCEPT !.applied = sicd.applied] = sicd]_vars

C29_Witness ==
  /\ last.op = "apply_reference_frequency"
  /\ last.raised = NoneStr
  /\ sicd.applied.RadarCollection = <<2>>
  /\ sicd.applied.ImageFormation = <<>>
  /\ sicd.applied.Antenna = <<2>>
  /\ sicd.applied.RMA = <<2>>

====
